---- MODULE Spec2Model ----
(***************************************************************************)
(* Verification model of the optimiser engine: the TrajectorySystem state  *)
(* machine (engine/models/trajectory.py), the Solver orchestration         *)
(* (engine/solver.py) and the OptimizerService facade (engine/service.py). *)
(***************************************************************************)
EXTENDS Integers, Sequences, FiniteSets, TLC

(***************************************************************************)
(* Python's None: an optional value is the empty tuple or a 1-tuple.       *)
(***************************************************************************)
None == <<>>
Some(v) == <<v>>
Val(o) == o[1]

(***************************************************************************)
(* Floating point values are modelled as exact rationals n/d in lowest     *)
(* terms (d > 0); d = 0 is the NaN sentinel (numpy.nan).                   *)
(***************************************************************************)
Abs(a) == IF a < 0 THEN -a ELSE a

RECURSIVE GCD(_, _)
GCD(a, b) == IF b = 0 THEN a ELSE GCD(b, a % b)

NaN == [n |-> 0, d |-> 0]
IsNaN(a) == a.d = 0

Rat(n, d) ==
    IF d = 0 THEN NaN
    ELSE LET g == GCD(Abs(n), Abs(d))
             s == IF d < 0 THEN -1 ELSE 1
         IN  [n |-> (s * n) \div g, d |-> (s * d) \div g]

Num(k) == [n |-> k, d |-> 1]
Zero == Num(0)
One == Num(1)

Add(a, b) == IF IsNaN(a) \/ IsNaN(b) THEN NaN ELSE Rat(a.n * b.d + b.n * a.d, a.d * b.d)
Sub(a, b) == IF IsNaN(a) \/ IsNaN(b) THEN NaN ELSE Rat(a.n * b.d - b.n * a.d, a.d * b.d)
Mul(a, b) == IF IsNaN(a) \/ IsNaN(b) THEN NaN ELSE Rat(a.n * b.n, a.d * b.d)
Div(a, b) == IF IsNaN(a) \/ IsNaN(b) THEN NaN ELSE Rat(a.n * b.d, a.d * b.n)
Neg(a) == Sub(Zero, a)

\* Comparisons: every ordered comparison with NaN is false, as in IEEE 754.
Lt(a, b) == ~IsNaN(a) /\ ~IsNaN(b) /\ a.n * b.d < b.n * a.d
Gt(a, b) == Lt(b, a)
Le(a, b) == ~IsNaN(a) /\ ~IsNaN(b) /\ a.n * b.d <= b.n * a.d
Ge(a, b) == Le(b, a)

\* Python's builtin max(a, b): returns a unless b > a.
PyMax(a, b) == IF Gt(b, a) THEN b ELSE a
\* Python's builtin min(a, b): returns a unless b < a.
PyMin(a, b) == IF Lt(b, a) THEN b ELSE a
\* numpy.maximum(a, b): propagates NaN.
NpMaximum(a, b) == IF IsNaN(a) \/ IsNaN(b) THEN NaN ELSE IF Lt(a, b) THEN b ELSE a

RECURSIVE SumSeq(_)
SumSeq(s) == IF s = <<>> THEN Zero ELSE Add(Head(s), SumSeq(Tail(s)))

\* numpy.dot of two vectors of equal length.
RECURSIVE Dot(_, _)
Dot(a, b) == IF a = <<>> THEN Zero ELSE Add(Mul(Head(a), Head(b)), Dot(Tail(a), Tail(b)))

ConstVec(len, v) == [i \in 1..len |-> v]

(***************************************************************************)
(* Bounds of the model.                                                    *)
(***************************************************************************)
MaxN == 2

(***************************************************************************)
(* Program constants.                                                      *)
(***************************************************************************)
Cp == 4185

(***************************************************************************)
(* SystemConfig and ExternalContext values the trajectories are built on.  *)
(* Heater: 200 L, 4650 W, so that one full step of heating at a 15 min     *)
(* step gains exactly 5 degrees (K = power*dt/(volume*Cp)).                *)
(***************************************************************************)
StepMinutes == 15

MakeConfig(grad) ==
    [power |-> Num(4650), volume |-> Num(200),
     heat_loss_coefficient |-> Rat(1, 50), is_gradation |-> grad,
     T_cold_water |-> Num(15), T_max_safe |-> Num(95)]

Configs == { MakeConfig(g) : g \in BOOLEAN }

SolarVals == <<Num(0), Num(2675), Num(5350)>>

\* A context of N steps; p rotates the solar, draw and off-peak patterns.
MakeContext(N, p) ==
    [N |-> N, step_minutes |-> StepMinutes,
     prices_purchases |-> Some(ConstVec(N, Rat(1, 5))),
     prices_sell |-> Some(ConstVec(N, Rat(1, 20))),
     solar_production |-> Some([i \in 1..N |-> SolarVals[((p + i) % 3) + 1]]),
     house_consumption |-> Some(ConstVec(N, Num(350))),
     water_draws |-> Some([i \in 1..N |-> IF (p + i) % 2 = 0 THEN Num(100) ELSE Num(0)]),
     future_setpoints |-> Some(ConstVec(N, Num(45))),
     off_peak_hours |-> Some([i \in 1..N |-> IF (p + i) % 2 = 1 THEN One ELSE Zero])]

Contexts == { MakeContext(N, p) : N \in 1..MaxN, p \in 0..1 }

\* The vectors of a context that may be None (external_context.py setters).
VectorFields ==
    {"prices_purchases", "prices_sell", "solar_production", "house_consumption",
     "water_draws", "future_setpoints"}

\* Contexts of one step that lack one vector.
PartialContexts == { [MakeContext(1, 0) EXCEPT ![f] = None] : f \in VectorFields }

InitialTemperatures == { Num(10), Num(50) }

(***************************************************************************)
(* State of one TrajectorySystem object, and of the call being observed.   *)
(***************************************************************************)
VARIABLES
    mode,                 \* TrajectorySystem._mode
    X,                    \* TrajectorySystem._X (None or the full vector)
    cost,                 \* TrajectorySystem._cost (None or a number)
    self_consumption,     \* TrajectorySystem._self_consumption
    config_system,        \* TrajectorySystem._sys_config (None or a SystemConfig)
    context,              \* TrajectorySystem._context (None or an ExternalContext)
    initial_temperature,  \* TrajectorySystem._initial_temp
    last,                 \* the last call: [op, outcome, arg, ret, pre]
    cost_src,             \* history: the X the cached cost was stored for
    sc_src,               \* history: the X the cached ratio was computed from
    pc,                   \* position of the OptimizerService / Solver.solve call
    inputs,               \* the OptimizationInputs handed to Solver.solve
    res,                  \* the backend's result object (None before the call)
    created,              \* whether Solver.solve has constructed its trajectory
    calls,                \* history: the calls Solver.solve made on its trajectory
    outcome               \* what trajectory_of_client gave its caller

trajVars == <<mode, X, cost, self_consumption, config_system, context,
              initial_temperature, last, cost_src, sc_src>>

solverVars == <<pc, inputs, res, created, calls, outcome>>

\* State of the domain objects (optimiser_engine/domain).
VARIABLES
    forbidden_slots,      \* Constraints._forbidden_slots
    prices,               \* Prices: [mode, hp_slots]
    setpoints,            \* Planning._setpoints
    round_trip,           \* history: an add_setpoint and the remove_setpoint that undoes it
    client,               \* a Client object
    client_dict,          \* None or the dictionary last produced or supplied
    service               \* None or an OptimizerService: [horizon, step_minutes]

domainVars == <<forbidden_slots, prices, setpoints, round_trip, client, client_dict, service>>

\* The domain variables but those of one class.
exceptConstraints == <<prices, setpoints, round_trip, client, client_dict, service>>
exceptPrices == <<forbidden_slots, setpoints, round_trip, client, client_dict, service>>
exceptPlanning == <<forbidden_slots, prices, client, client_dict, service>>
exceptClient == <<forbidden_slots, prices, setpoints, round_trip, service>>

vars == <<mode, X, cost, self_consumption, config_system, context,
          initial_temperature, last, cost_src, sc_src,
          pc, inputs, res, created, calls, outcome, forbidden_slots, prices,
          setpoints, round_trip, client, client_dict, service>>

\* The engine's variables but the call record.
engineVars == <<mode, X, cost, self_consumption, config_system, context,
                initial_temperature, cost_src, sc_src,
                pc, inputs, res, created, calls, outcome>>

\* Constraints.__init__ with no forbidden slot (constraints.py lines 201-203).
ConstraintsConstructed == forbidden_slots = <<>>

\* Prices.__init__ (prices_model.py lines 34-52): mode None stands for "BASE",
\* and no peak slot is stored.
PricesConstructed(m) ==
    prices = [mode |-> IF m = None THEN "BASE" ELSE Val(m), hp_slots |-> <<>>]

\* Planning.__init__ (consignes_models.py lines 238-247).
PlanningConstructed == setpoints = <<>> /\ round_trip = None

\* The domain objects as their constructors leave them.
DomainConstructed ==
    /\ ConstraintsConstructed /\ PricesConstructed(None) /\ PlanningConstructed
    /\ client = None /\ client_dict = None /\ service = None

\* The record of a call: its name, the exception it raised or "ok", its argument,
\* the value it returned, and whether it found the two caches filled.
Call(op, result, arg, ret) ==
    [op |-> op, outcome |-> result, arg |-> arg, ret |-> ret,
     pre |-> <<cost # None, self_consumption # None>>]

\* The fields a fresh TrajectorySystem gets from __init__ (lines 88-95).
Constructed(cfg, ctx, T0) ==
    /\ mode = "MANUAL"
    /\ config_system = cfg
    /\ context = ctx
    /\ initial_temperature = T0
    /\ X = None
    /\ cost = None
    /\ self_consumption = None

\* TrajectorySystem.__init__ with x = None.
Init ==
    /\ \E cfg \in {None} \cup { Some(c) : c \in Configs },
          ctx \in {None} \cup { Some(c) : c \in Contexts },
          T0 \in {None} \cup { Some(t) : t \in InitialTemperatures } :
            Constructed(cfg, ctx, T0)
    /\ DomainConstructed
    /\ last = Call("__init__", "ok", None, None)
    /\ cost_src = None
    /\ sc_src = None
    /\ pc = "api"
    /\ inputs = None
    /\ res = None
    /\ created = TRUE
    /\ calls = <<>>
    /\ outcome = "api"

(***************************************************************************)
(* x setter (trajectory.py 162-232).                                       *)
(***************************************************************************)
NanFill(N) == ConstVec(3 * N + 1, NaN)

\* The delivered-trajectory guard of the setter is commented out in the source
\* (lines 193-194): no mode is refused.
XSetterPermissionDenied(m) == FALSE

XLengthOk(v, N) == Len(v) = N

\* Mutant: the lower bound of the range test is forgotten.
XInRange_UpperOnly(v, N) == \A i \in 1..N : ~Gt(v[i], One)

XInRange(v, N) == \A i \in 1..N : ~(Gt(v[i], One) \/ Lt(v[i], Zero))

XBinary(v, N) == \A i \in 1..N : ~(v[i] # Zero /\ v[i] # One)

\* The exception the setter raises for valeur, or "ok".
XSetterOutcome(valeur, m, ctx, cfg) ==
    IF XSetterPermissionDenied(m) THEN "PermissionDeniedError"
    ELSE IF valeur = None THEN "ok"
    ELSE IF ctx = None THEN "ContextNotDefined"
    ELSE IF cfg = None THEN "NotEnoughVariables"
    ELSE IF ~XLengthOk(Val(valeur), Val(ctx).N) THEN "DimensionNotRespected"
    ELSE IF ~XInRange(Val(valeur), Val(ctx).N) THEN "ValueError"
    ELSE IF Val(cfg).is_gradation = FALSE /\ ~XBinary(Val(valeur), Val(ctx).N) THEN "ValueError"
    ELSE "ok"

\* The X stored by an accepted assignment.
XSetterStored(valeur, ctx) ==
    IF valeur = None THEN None
    ELSE Some(Val(valeur) \o NanFill(Val(ctx).N))

\* Arrays offered to the setter: every vector of admissible values of the
\* right length, and vectors that break one rule each.
ValidXValues == { Zero, Rat(1, 2), One }

XInputs(N) ==
    [1..N -> ValidXValues]
    \cup { ConstVec(N + 1, Zero) }
    \cup { [ConstVec(N, Zero) EXCEPT ![1] = Rat(-1, 2)],
           [ConstVec(N, One) EXCEPT ![N] = Rat(3, 2)],
           [ConstVec(N, One) EXCEPT ![N] = NaN] }

SetX(valeur) ==
    LET r == XSetterOutcome(valeur, mode, context, config_system) IN
    /\ last' = Call("x_setter", r, valeur, None)
    /\ IF r = "ok"
       THEN /\ X' = XSetterStored(valeur, context)
            /\ cost' = None
            /\ self_consumption' = None
            /\ cost_src' = None
            /\ sc_src' = None
       ELSE UNCHANGED <<X, cost, self_consumption, cost_src, sc_src>>
    /\ UNCHANGED <<mode, config_system, context, initial_temperature>>

AssignX ==
    \E valeur \in {None} \cup
                  { Some(v) : v \in XInputs(IF context = None THEN 1 ELSE Val(context).N) } :
        SetX(valeur)

(***************************************************************************)
(* make_solver_traj / make_solver_delivered_traj (trajectory.py 384-404).  *)
(***************************************************************************)
MakeSolverTraj ==
    /\ mode' = "SOLVER"
    /\ last' = Call("make_solver_traj", "ok", None, None)
    /\ UNCHANGED <<X, cost, self_consumption, config_system, context,
                   initial_temperature, cost_src, sc_src>>

MakeSolverDeliveredTraj ==
    /\ mode' = "SOLVER_DELIVERED"
    /\ last' = Call("make_solver_delivered_traj", "ok", None, None)
    /\ UNCHANGED <<X, cost, self_consumption, config_system, context,
                   initial_temperature, cost_src, sc_src>>

(***************************************************************************)
(* update_X (trajectory.py 315-382).                                       *)
(***************************************************************************)
\* K_gain: degrees gained by one step of full heating (line 357).
KGain(cfg, ctx) ==
    Div(Mul(cfg.power, Num(ctx.step_minutes * 60)), Mul(cfg.volume, Num(Cp)))

\* loss_per_step (line 360).
LossPerStep(cfg, ctx) == Mul(cfg.heat_loss_coefficient, Num(ctx.step_minutes))

\* One step of the thermal recurrence, before the cold-water floor (line 371).
TNext(T_prev, rho, x_val, cfg, ctx) ==
    Sub(Add(Add(Mul(T_prev, Sub(One, rho)), Mul(rho, cfg.T_cold_water)),
            Mul(KGain(cfg, ctx), x_val)),
        LossPerStep(cfg, ctx))

\* Mutant: the cold-water floor is dropped.
ColdFloor_Missing(T_next, T_cold) == T_next

\* Line 374: T_vec[t+1] = max(T_next, T_cold).
ColdFloor(T_next, T_cold) == PyMax(T_next, T_cold)

\* T_vec (lines 348-374): N+1 temperatures, T_vec[0] = initial temperature.
RECURSIVE ThermalLoop(_, _, _, _, _)
ThermalLoop(T_vec, x_decisions, rho_vec, cfg, ctx) ==
    LET t == Len(T_vec) IN
    IF t > ctx.N THEN T_vec
    ELSE ThermalLoop(
            Append(T_vec, ColdFloor(TNext(T_vec[t], rho_vec[t], x_decisions[t], cfg, ctx),
                                    cfg.T_cold_water)),
            x_decisions, rho_vec, cfg, ctx)

RhoVec(cfg, ctx) == [i \in 1..ctx.N |-> Div(Val(ctx.water_draws)[i], cfg.volume)]

\* Mutant: the draws are divided in place (water_draws /= V).
ContextAfterRho_InPlace(cfg, ctx) == [ctx EXCEPT !.water_draws = Some(RhoVec(cfg, ctx))]

\* Lines 343, 363, 785, 894: the context vectors are operands of binary numpy
\* operators, which allocate their result; the context is left as it was.
ContextAfterRho(cfg, ctx) == ctx

\* p_net (line 343) for decisions x.
PNet(x_decisions, cfg, ctx) ==
    [i \in 1..ctx.N |->
        Add(Sub(Val(ctx.house_consumption)[i], Val(ctx.solar_production)[i]),
            Mul(x_decisions[i], cfg.power))]

ImportsOf(p_net) == [i \in 1..Len(p_net) |-> NpMaximum(Zero, p_net[i])]
ExportsOf(p_net) == [i \in 1..Len(p_net) |-> NpMaximum(Zero, Neg(p_net[i]))]

\* The full vector [x | T | I | E] recomputed from the decisions (line 378).
RecomputedX(x_decisions, T0, cfg, ctx) ==
    LET p_net == PNet(x_decisions, cfg, ctx) IN
    x_decisions
      \o ThermalLoop(<<T0>>, x_decisions, RhoVec(cfg, ctx), cfg, ctx)
      \o ImportsOf(p_net) \o ExportsOf(p_net)

UpdateXOutcome ==
    IF X = None THEN "NotEnoughVariables"
    ELSE IF config_system = None \/ context = None \/ initial_temperature = None
         THEN "NotEnoughVariables"
    ELSE IF \/ Val(context).house_consumption = None
            \/ Val(context).solar_production = None
            \/ Val(context).water_draws = None
         THEN "TypeError"
    ELSE "ok"

\* Mutant: update_X keeps the cached cost.
CostAfterUpdate_Kept == cost

\* Lines 381-382: the caches after a recomputation.
CostAfterUpdate == None
SelfConsumptionAfterUpdate == None

UpdateX ==
    LET r == UpdateXOutcome IN
    /\ last' = Call("update_X", r, None, None)
    /\ IF r = "ok"
       THEN /\ X' = Some(RecomputedX(SubSeq(Val(X), 1, Val(context).N),
                                    Val(initial_temperature),
                                    Val(config_system), Val(context)))
            /\ cost' = CostAfterUpdate
            /\ self_consumption' = SelfConsumptionAfterUpdate
            /\ cost_src' = IF cost' = None THEN None ELSE cost_src
            /\ sc_src' = IF self_consumption' = None THEN None ELSE sc_src
            /\ context' = Some(ContextAfterRho(Val(config_system), Val(context)))
       ELSE UNCHANGED <<X, cost, self_consumption, cost_src, sc_src, context>>
    /\ UNCHANGED <<mode, config_system, initial_temperature>>

(***************************************************************************)
(* upload_X_vector / upload_cost (trajectory.py 407-475).                  *)
(***************************************************************************)
\* Mutant: only MANUAL is refused.
UploadDenied_ManualOnly(m) == m = "MANUAL"

\* Lines 432 and 471: the modes in which an upload is refused.
UploadDenied(m) == m = "MANUAL" \/ m = "SOLVER_DELIVERED"

\* Mutant: the shape test is dropped.
UploadShapeOk_Unchecked(x, N) == TRUE

\* Line 441: np.shape(x) != (4*N+1,).
UploadShapeOk(x, N) == Len(x) = 4 * N + 1

UploadXOutcome(x) ==
    IF UploadDenied(mode) THEN "PermissionDeniedError"
    ELSE IF context = None THEN "AttributeError"
    ELSE IF ~UploadShapeOk(x, Val(context).N) THEN "DimensionNotRespected"
    ELSE "ok"

\* Lines 446-447: the caches after an upload of X.
CostAfterUpload == None
SelfConsumptionAfterUpload == None

UploadXVector(x) ==
    LET r == UploadXOutcome(x) IN
    /\ last' = Call("upload_X_vector", r, Some(x), None)
    /\ IF r = "ok"
       THEN /\ X' = Some(x)
            /\ cost' = CostAfterUpload
            /\ self_consumption' = SelfConsumptionAfterUpload
            /\ cost_src' = IF cost' = None THEN None ELSE cost_src
            /\ sc_src' = IF self_consumption' = None THEN None ELSE sc_src
       ELSE UNCHANGED <<X, cost, self_consumption, cost_src, sc_src>>
    /\ UNCHANGED <<mode, config_system, context, initial_temperature>>

\* Vectors a solver backend may hand over: right and wrong shapes.
UploadInputs(N) ==
    { ConstVec(4 * N + 1, One), ConstVec(4 * N, One) }

UploadX ==
    \E x \in UploadInputs(IF context = None THEN 1 ELSE Val(context).N) :
        UploadXVector(x)

UploadCostValues == { Rat(3, 2) }

UploadCostCall(c) ==
    /\ last' = Call("upload_cost", IF UploadDenied(mode) THEN "PermissionDeniedError" ELSE "ok",
                    Some(c), None)
    /\ IF UploadDenied(mode)
       THEN UNCHANGED <<cost, cost_src>>
       ELSE /\ cost' = Some(c)
            /\ cost_src' = Some(X)
    /\ UNCHANGED <<mode, X, self_consumption, config_system, context,
                   initial_temperature, sc_src>>

UploadCost == \E c \in UploadCostValues : UploadCostCall(c)

(***************************************************************************)
(* Read accessors (trajectory.py 478-558).                                 *)
(***************************************************************************)
\* get_temperatures / get_imports / get_exports derive N from the length of X.
NOfX(A) == (Len(A) - 1) \div 4
GetterDimensionOk(A) == (Len(A) - 1) % 4 = 0

GetTemperatures(A) == SubSeq(A, NOfX(A) + 1, 2 * NOfX(A) + 1)
GetImports(A) == SubSeq(A, 2 * NOfX(A) + 2, 3 * NOfX(A) + 1)
GetExports(A) == SubSeq(A, 3 * NOfX(A) + 2, 4 * NOfX(A) + 1)

\* get_decisions is the x property (lines 157-160).
GetDecisions == IF X = None \/ context = None THEN None
                ELSE Some(SubSeq(Val(X), 1, Val(context).N))

ReadAccessors ==
    /\ last' = Call("get_exports",
                    IF X # None /\ ~GetterDimensionOk(Val(X)) THEN "DimensionNotRespected" ELSE "ok",
                    None,
                    IF X = None \/ ~GetterDimensionOk(Val(X)) THEN None
                    ELSE Some(GetExports(Val(X))))
    /\ UNCHANGED <<mode, X, cost, self_consumption, config_system, context,
                   initial_temperature, cost_src, sc_src>>

(***************************************************************************)
(* compute_cost (trajectory.py 561-623).                                   *)
(***************************************************************************)
SeqHasNaN(v) == \E i \in 1..Len(v) : IsNaN(v[i])

\* Line 621: dt_hours * (<imports, purchase> - <exports, sell>) / 1000.
CostFormula(imports, exports, ctx) ==
    Div(Mul(Rat(ctx.step_minutes, 60),
            Sub(Dot(imports, Val(ctx.prices_purchases)), Dot(exports, Val(ctx.prices_sell)))),
        Num(1000))

\* The exception compute_cost raises when it has to compute, or "ok".
\* Nothing on this path looks for the NaN sentinel in imports / exports.
ComputeCostOutcome ==
    IF context = None THEN "ContextNotDefined"
    ELSE IF Val(context).prices_purchases = None \/ Val(context).prices_sell = None
         THEN "NotEnoughVariables"
    ELSE IF Val(context).step_minutes <= 0 THEN "NotEnoughVariables"
    ELSE IF X # None /\ ~GetterDimensionOk(Val(X)) THEN "DimensionNotRespected"
    ELSE IF X = None THEN "NotEnoughVariables"
    ELSE IF \/ Len(Val(Val(context).prices_purchases)) # Val(context).N
            \/ Len(Val(Val(context).prices_sell)) # Val(context).N
            \/ Len(GetExports(Val(X))) # Val(context).N
            \/ Len(GetImports(Val(X))) # Val(context).N
         THEN "DimensionNotRespected"
    ELSE "ok"

ComputeCost ==
    IF cost # None
    THEN /\ last' = Call("compute_cost", "ok", None, cost)
         /\ UNCHANGED <<mode, X, cost, self_consumption, config_system, context,
                        initial_temperature, cost_src, sc_src>>
    ELSE LET r == ComputeCostOutcome IN
         /\ IF r = "ok"
            THEN /\ cost' = Some(CostFormula(GetImports(Val(X)), GetExports(Val(X)), Val(context)))
                 /\ cost_src' = Some(X)
                 /\ last' = Call("compute_cost", r, None, cost')
            ELSE /\ UNCHANGED <<cost, cost_src>>
                 /\ last' = Call("compute_cost", r, None, None)
         /\ UNCHANGED <<mode, X, self_consumption, config_system, context,
                        initial_temperature, sc_src>>

(***************************************************************************)
(* compute_self_consumption (trajectory.py 626-682).                       *)
(***************************************************************************)
ComputeSelfConsumptionOutcome ==
    IF context = None THEN "ContextNotDefined"
    ELSE IF X # None /\ ~GetterDimensionOk(Val(X)) THEN "DimensionNotRespected"
    ELSE IF X = None THEN "NotEnoughVariables"
    ELSE IF Val(context).solar_production = None THEN "NotEnoughVariables"
    ELSE IF SeqHasNaN(GetExports(Val(X))) THEN "UpdateRequired"
    ELSE "ok"

\* Mutant: the exported share is subtracted the wrong way round.
SelfConsumptionRatio_Swapped(exports, solar_production_vector) ==
    LET total_prod == SumSeq(solar_production_vector)
        total_export == SumSeq(exports)
    IN  IF total_prod = Zero THEN Zero
        ELSE Div(Sub(total_export, total_prod), total_prod)

\* Lines 665-682.
SelfConsumptionRatio(exports, solar_production_vector) ==
    LET total_prod == SumSeq(solar_production_vector)
        total_export == SumSeq(exports)
    IN  IF total_prod = Zero THEN Zero
        ELSE Div(Sub(total_prod, total_export), total_prod)

ComputeSelfConsumption ==
    IF self_consumption # None
    THEN /\ last' = Call("compute_self_consumption", "ok", None, self_consumption)
         /\ UNCHANGED <<mode, X, cost, self_consumption, config_system, context,
                        initial_temperature, cost_src, sc_src>>
    ELSE LET r == ComputeSelfConsumptionOutcome IN
         /\ IF r = "ok"
            THEN /\ self_consumption' =
                        Some(SelfConsumptionRatio(GetExports(Val(X)),
                                                  Val(Val(context).solar_production)))
                 /\ sc_src' = Some(X)
                 /\ last' = Call("compute_self_consumption", r, None, self_consumption')
            ELSE /\ UNCHANGED <<self_consumption, sc_src>>
                 /\ last' = Call("compute_self_consumption", r, None, None)
         /\ UNCHANGED <<mode, X, cost, config_system, context,
                        initial_temperature, cost_src>>

(***************************************************************************)
(* generate_standard_trajectory (trajectory.py 705-835).                   *)
(***************************************************************************)
SeqMax(v) == CHOOSE m \in { v[i] : i \in 1..Len(v) } : \A j \in 1..Len(v) : Le(v[j], m)

\* Lines 788-790 and 901-904: the off-peak signal, all ones when the context has none.
GridSignal(ctx) == IF ctx.off_peak_hours = None THEN ConstVec(ctx.N, One)
                   ELSE Val(ctx.off_peak_hours)

\* Lines 800-815: the thermostat decision of step t.
StandardDecision(current_temperature, t, mode_WH, setpoint_temperature, ctx) ==
    LET need_heating == Lt(current_temperature, setpoint_temperature)
        allowed_to_heat == ~(mode_WH = "SETPOINT_OFF_PEAK" /\ GridSignal(ctx)[t] = Zero)
    IN  IF need_heating /\ allowed_to_heat THEN One ELSE Zero

\* Lines 796-826: the decisions of the causal loop.
RECURSIVE StandardLoop(_, _, _, _, _, _)
StandardLoop(x, current_temperature, mode_WH, setpoint_temperature, cfg, ctx) ==
    LET t == Len(x) + 1 IN
    IF t > ctx.N THEN x
    ELSE LET xt == StandardDecision(current_temperature, t, mode_WH, setpoint_temperature, ctx)
             T_next == TNext(current_temperature, RhoVec(cfg, ctx)[t], xt, cfg, ctx)
         IN  StandardLoop(Append(x, xt), PyMax(T_next, cfg.T_cold_water),
                          mode_WH, setpoint_temperature, cfg, ctx)

\* The decisions of the calls on the contexts of Contexts, tabulated once.
StandardRuns ==
    [mode_WH : {"SETPOINT", "SETPOINT_OFF_PEAK"}, sp : {Num(45), Num(55)},
     T0 : InitialTemperatures, cfg : Configs, ctx : Contexts]

StandardX ==
    LET f == [a \in StandardRuns |-> StandardLoop(<<>>, a.T0, a.mode_WH, a.sp, a.cfg, a.ctx)]
    IN  f @@ f

GenerateStandardOutcome(setpoint_temperature) ==
    IF context = None THEN "ContextNotDefined"
    ELSE IF config_system = None THEN "NotEnoughVariables"
    ELSE IF initial_temperature = None THEN "NotEnoughVariables"
    ELSE IF setpoint_temperature = None /\ Val(context).future_setpoints = None
         THEN "NotEnoughVariables"
    ELSE IF Val(context).water_draws = None THEN "TypeError"
    ELSE "ok"

\* Line 830: cls(config_system, context, initial_temperature, x); the call of
\* update_X that would fill the derived segments is commented out (line 833).
GenerateStandardTrajectory(mode_WH, setpoint_temperature) ==
    LET r == GenerateStandardOutcome(setpoint_temperature)
        arg == Some([mode |-> mode_WH, setpoint |-> setpoint_temperature])
    IN
    IF r # "ok"
    THEN /\ last' = Call("generate_standard_trajectory", r, arg, None)
         /\ UNCHANGED <<mode, X, cost, self_consumption, config_system, context,
                        initial_temperature, cost_src, sc_src>>
    ELSE LET cfg == Val(config_system)
             ctx == Val(context)
             sp == IF setpoint_temperature = None THEN SeqMax(Val(ctx.future_setpoints))
                   ELSE Val(setpoint_temperature)
             run == [mode_WH |-> mode_WH, sp |-> sp, T0 |-> Val(initial_temperature),
                     cfg |-> cfg, ctx |-> ctx]
             x == IF run \in StandardRuns THEN StandardX[run]
                  ELSE StandardLoop(<<>>, run.T0, mode_WH, sp, cfg, ctx)
             rx == XSetterOutcome(Some(x), "MANUAL", context, config_system)
         IN  /\ last' = Call("generate_standard_trajectory", rx, arg, None)
             /\ context' = Some(ContextAfterRho(cfg, ctx))
             /\ IF rx = "ok"
                THEN /\ mode' = "MANUAL"
                     /\ X' = XSetterStored(Some(x), context)
                     /\ cost' = None
                     /\ self_consumption' = None
                     /\ cost_src' = None
                     /\ sc_src' = None
                ELSE UNCHANGED <<mode, X, cost, self_consumption, cost_src, sc_src>>
             /\ UNCHANGED <<config_system, initial_temperature>>

SetpointInputs == { None, Some(Num(55)) }

GenerateStandard ==
    \E mode_WH \in {"SETPOINT", "SETPOINT_OFF_PEAK"}, sp \in SetpointInputs :
        GenerateStandardTrajectory(mode_WH, sp)

(***************************************************************************)
(* generate_router_only_trajectory (trajectory.py 837-980).                *)
(***************************************************************************)
\* Mutant: in COMFORT mode the backup heats whatever the grid signal says.
RouterDecision_BackupAlways(current_temperature, t, router_mode, setpoint_temperature, cfg, ctx) ==
    IF Ge(current_temperature, setpoint_temperature) THEN Zero
    ELSE LET surplus_W == Sub(Val(ctx.solar_production)[t], Val(ctx.house_consumption)[t])
             x_solaire == IF Gt(surplus_W, Zero) THEN PyMin(Div(surplus_W, cfg.power), One)
                          ELSE Zero
             x_backup == IF router_mode = "COMFORT" THEN One ELSE Zero
         IN  PyMax(x_solaire, x_backup)

\* Mutant: any surplus switches the heater fully on.
RouterDecision_FullPower(current_temperature, t, router_mode, setpoint_temperature, cfg, ctx) ==
    IF Ge(current_temperature, setpoint_temperature) THEN Zero
    ELSE LET surplus_W == Sub(Val(ctx.solar_production)[t], Val(ctx.house_consumption)[t])
             x_solaire == IF Gt(surplus_W, Zero) THEN One ELSE Zero
             x_backup == IF router_mode = "COMFORT" /\ GridSignal(ctx)[t] = One THEN One
                         ELSE Zero
         IN  PyMax(x_solaire, x_backup)

\* Lines 922-948: the router decision of step t.
RouterDecision(current_temperature, t, router_mode, setpoint_temperature, cfg, ctx) ==
    IF Ge(current_temperature, setpoint_temperature) THEN Zero
    ELSE LET surplus_W == Sub(Val(ctx.solar_production)[t], Val(ctx.house_consumption)[t])
             x_solaire == IF Gt(surplus_W, Zero) THEN PyMin(Div(surplus_W, cfg.power), One)
                          ELSE Zero
             x_backup == IF router_mode = "COMFORT" /\ GridSignal(ctx)[t] = One THEN One
                         ELSE Zero
         IN  PyMax(x_solaire, x_backup)

\* Lines 917-959: the loop, returning <<x_vec, T_vec>>.
RECURSIVE RouterLoop(_, _, _, _, _, _)
RouterLoop(x_vec, T_vec, router_mode, setpoint_temperature, cfg, ctx) ==
    LET t == Len(x_vec) + 1 IN
    IF t > ctx.N THEN <<x_vec, T_vec>>
    ELSE LET x_decision == RouterDecision(T_vec[t], t, router_mode, setpoint_temperature, cfg, ctx)
             T_next == TNext(T_vec[t], RhoVec(cfg, ctx)[t], x_decision, cfg, ctx)
         IN  RouterLoop(Append(x_vec, x_decision),
                        Append(T_vec, PyMax(T_next, cfg.T_cold_water)),
                        router_mode, setpoint_temperature, cfg, ctx)

GenerateRouterOutcome ==
    IF context = None \/ config_system = None THEN "NotEnoughVariables"
    ELSE IF initial_temperature = None THEN "NotEnoughVariables"
    ELSE IF \/ Val(context).water_draws = None
            \/ Val(context).solar_production = None
            \/ Val(context).house_consumption = None
         THEN "TypeError"
    ELSE "ok"

\* Lines 963-977: the vector written straight into _X.
RouterX(router_mode, setpoint_temperature, T0, cfg, ctx) ==
    LET loop == RouterLoop(<<>>, <<T0>>, router_mode, setpoint_temperature, cfg, ctx)
        p_net == PNet(loop[1], cfg, ctx)
    IN  loop[1] \o loop[2] \o ImportsOf(p_net) \o ExportsOf(p_net)

\* Contexts whose solar surplus is either absent or half the heater's power,
\* the surplus falling on the off-peak steps.
RouterContexts ==
    { [MakeContext(N, p) EXCEPT
          !.solar_production = Some([i \in 1..N |-> SolarVals[((p + i) % 2) + 1]])] :
      N \in 1..MaxN, p \in 0..1 }

\* The vector of the calls on the contexts of Contexts, tabulated once.
RouterRuns ==
    [router_mode : {"SELF_CONSUMPTION_ONLY", "COMFORT"}, sp : {Num(95), Num(55)},
     T0 : InitialTemperatures, cfg : Configs, ctx : Contexts]

RouterXTable ==
    LET f == [a \in RouterRuns |-> RouterX(a.router_mode, a.sp, a.T0, a.cfg, a.ctx)]
    IN  f @@ f

GenerateRouterOnlyTrajectory(router_mode, setpoint_temperature) ==
    LET r == GenerateRouterOutcome
        arg == Some([mode |-> router_mode, setpoint |-> setpoint_temperature])
    IN
    /\ last' = Call("generate_router_only_trajectory", r, arg, None)
    /\ IF r = "ok"
       THEN /\ mode' = "MANUAL"
            /\ LET run == [router_mode |-> router_mode,
                           sp |-> IF setpoint_temperature = None
                                  THEN Val(config_system).T_max_safe
                                  ELSE Val(setpoint_temperature),
                           T0 |-> Val(initial_temperature),
                           cfg |-> Val(config_system), ctx |-> Val(context)]
               IN  X' = Some(IF run \in RouterRuns THEN RouterXTable[run]
                             ELSE RouterX(router_mode, run.sp, run.T0, run.cfg, run.ctx))
            /\ cost' = None
            /\ self_consumption' = None
            /\ cost_src' = None
            /\ sc_src' = None
            /\ context' = Some(ContextAfterRho(Val(config_system), Val(context)))
       ELSE UNCHANGED <<mode, X, cost, self_consumption, cost_src, sc_src, context>>
    /\ UNCHANGED <<config_system, initial_temperature>>

GenerateRouter ==
    \E router_mode \in {"SELF_CONSUMPTION_ONLY", "COMFORT"}, sp \in SetpointInputs :
        GenerateRouterOnlyTrajectory(router_mode, sp)

(***************************************************************************)
(* The public operations on one trajectory object.                         *)
(***************************************************************************)

(***************************************************************************)
(* Solver.solve (solver.py 35-125) called by                               *)
(* OptimizerService.trajectory_of_client (service.py 178-185).             *)
(***************************************************************************)
OptimizationInputsSet ==
    [system_config : Configs, context : Contexts,
     initial_temperature : InitialTemperatures, mode : {"COST", "AUTOCONS"}]

\* Mutant: the resale prices enter the objective with the sign of a purchase.
C_cost_ResaleAdded(ctx) ==
    ConstVec(ctx.N, Zero) \o ConstVec(ctx.N + 1, Zero)
      \o Val(ctx.prices_purchases) \o Val(ctx.prices_sell)

\* optimisation_inputs.py lines 480-507: C = [0(N) | 0(N+1) | prices | -prices_sell].
C_cost(ctx) ==
    ConstVec(ctx.N, Zero) \o ConstVec(ctx.N + 1, Zero)
      \o Val(ctx.prices_purchases)
      \o [i \in 1..ctx.N |-> Neg(Val(ctx.prices_sell)[i])]

\* optimisation_inputs.py lines 509-527: C = [0(N) | 0(N+1) | 1000 | 1].
C_autocons(ctx) ==
    ConstVec(ctx.N, Zero) \o ConstVec(ctx.N + 1, Zero)
      \o ConstVec(ctx.N, Num(1000)) \o ConstVec(ctx.N, Num(1))

\* solver.py lines 60-64: the objective handed to the backend.
ObjectiveVec(inp) ==
    IF inp.mode = "COST" THEN C_cost(inp.context) ELSE C_autocons(inp.context)

\* The vectors a backend may hand over: all ones, all zeros, and a plan that
\* imports 5000 W at every step and exports 120 W at the first.
BackendVectors(N) ==
    { ConstVec(4 * N + 1, One), ConstVec(4 * N + 1, Zero),
      ConstVec(N, One) \o ConstVec(N + 1, Num(50)) \o ConstVec(N, Num(5000))
        \o [i \in 1..N |-> IF i = 1 THEN Num(120) ELSE Zero] }

\* What a backend may return: success or not, a vector of the length of the
\* objective (4N+1), and in fun the value c @ x of the objective it was given.
BackendResults(inp) ==
    { [backend |-> IF inp.system_config.is_gradation THEN "linprog" ELSE "milp",
       success |-> ok, x |-> x, fun |-> Dot(ObjectiveVec(inp), x)] :
        ok \in BOOLEAN, x \in BackendVectors(inp.context.N) }

\* Mutant: the result's success flag is not looked at.
BackendFailed_Ignored(r) == FALSE

\* Lines 78 and 103: if not res.success: raise RuntimeError.
BackendFailed(r) == ~r.success

\* Mutant: the cost is uploaded in every mode.
SolveUploadsCost_Always(m) == TRUE

\* Line 117: the cost is uploaded in COST mode only.
SolveUploadsCost(m) == m = "COST"

\* Line 118: cost = res.fun / (1000*(60/step_minutes)).
ScaledCost(fun, step_minutes) ==
    Div(fun, Mul(Num(1000), Div(Num(60), Num(step_minutes))))

\* No trajectory object exists yet: its fields are placeholders until created.
SolveInit ==
    /\ Constructed(None, None, None)
    /\ DomainConstructed
    /\ last = Call("trajectory_of_client", "pending", None, None)
    /\ cost_src = None
    /\ sc_src = None
    /\ pc = "solve"
    /\ inputs \in { Some(i) : i \in OptimizationInputsSet }
    /\ res = None
    /\ created = FALSE
    /\ calls = <<>>
    /\ outcome = "pending"

\* Lines 69-76 / 82-101: the backend runs.
SolveBackend ==
    /\ pc = "solve"
    /\ \E r \in BackendResults(Val(inputs)) : res' = Some(r)
    /\ pc' = "backend"
    /\ UNCHANGED <<trajVars, inputs, created, calls, outcome>>

\* Lines 78-79 / 103-104: a non-successful result raises before line 108.
SolveRaise ==
    /\ pc = "backend"
    /\ BackendFailed(Val(res))
    /\ pc' = "raised"
    /\ last' = Call("Solver.solve", "RuntimeError", None, None)
    /\ UNCHANGED <<mode, X, cost, self_consumption, config_system, context,
                   initial_temperature, cost_src, sc_src>>
    /\ UNCHANGED <<inputs, res, created, calls, outcome>>

\* Line 108: traj = TrajectorySystem(config, context, initial_temperature).
SolveConstruct ==
    /\ pc = "backend"
    /\ ~BackendFailed(Val(res))
    /\ mode' = "MANUAL"
    /\ config_system' = Some(Val(inputs).system_config)
    /\ context' = Some(Val(inputs).context)
    /\ initial_temperature' = Some(Val(inputs).initial_temperature)
    /\ X' = None
    /\ cost' = None
    /\ self_consumption' = None
    /\ last' = Call("__init__", "ok", None, None)
    /\ created' = TRUE
    /\ calls' = <<"__init__">>
    /\ pc' = "constructed"
    /\ UNCHANGED <<cost_src, sc_src, inputs, res, outcome>>

\* Line 111.
SolveMakeSolver ==
    /\ pc = "constructed"
    /\ MakeSolverTraj
    /\ calls' = Append(calls, "make_solver_traj")
    /\ pc' = "solver"
    /\ UNCHANGED <<inputs, res, created, outcome>>

\* Line 114: an exception of the upload leaves solve.
SolveUploadX ==
    /\ pc = "solver"
    /\ UploadXVector(Val(res).x)
    /\ calls' = Append(calls, "upload_X_vector")
    /\ pc' = IF last'.outcome = "ok" THEN "x_uploaded" ELSE "raised"
    /\ UNCHANGED <<inputs, res, created, outcome>>

\* Lines 117-119.
SolveUploadCost ==
    /\ pc = "x_uploaded"
    /\ IF SolveUploadsCost(Val(inputs).mode)
       THEN /\ UploadCostCall(ScaledCost(Val(res).fun, Val(inputs).context.step_minutes))
            /\ calls' = Append(calls, "upload_cost")
            /\ pc' = IF last'.outcome = "ok" THEN "cost_done" ELSE "raised"
       ELSE /\ UNCHANGED <<trajVars, calls>>
            /\ pc' = "cost_done"
    /\ UNCHANGED <<inputs, res, created, outcome>>

\* Lines 123-125.
SolveDeliver ==
    /\ pc = "cost_done"
    /\ MakeSolverDeliveredTraj
    /\ calls' = Append(calls, "make_solver_delivered_traj")
    /\ pc' = "returned"
    /\ UNCHANGED <<inputs, res, created, outcome>>

\* service.py 181-185: the trajectory is returned to the caller.
ServiceReturn ==
    /\ pc = "returned"
    /\ outcome' = "trajectory"
    /\ pc' = "done"
    /\ UNCHANGED <<trajVars, inputs, res, created, calls>>

\* service.py 182-183: except RuntimeError: raise SolverFailed; others pass through.
ServiceCatch ==
    /\ pc = "raised"
    /\ outcome' = IF last.outcome = "RuntimeError" THEN "SolverFailed" ELSE last.outcome
    /\ pc' = "done"
    /\ UNCHANGED <<trajVars, inputs, res, created, calls>>

SolveNext ==
    \/ SolveBackend /\ UNCHANGED domainVars
    \/ SolveRaise /\ UNCHANGED domainVars
    \/ SolveConstruct /\ UNCHANGED domainVars
    \/ SolveMakeSolver /\ UNCHANGED domainVars
    \/ SolveUploadX /\ UNCHANGED domainVars
    \/ SolveUploadCost /\ UNCHANGED domainVars
    \/ SolveDeliver /\ UNCHANGED domainVars
    \/ ServiceReturn /\ UNCHANGED domainVars
    \/ ServiceCatch /\ UNCHANGED domainVars

SolveSpec == SolveInit /\ [][SolveNext]_vars

(***************************************************************************)
(* The public operations on one trajectory object.                         *)
(***************************************************************************)
Next ==
    \/ AssignX /\ UNCHANGED <<solverVars, domainVars>>
    \/ UpdateX /\ UNCHANGED <<solverVars, domainVars>>
    \/ MakeSolverTraj /\ UNCHANGED <<solverVars, domainVars>>
    \/ MakeSolverDeliveredTraj /\ UNCHANGED <<solverVars, domainVars>>
    \/ UploadX /\ UNCHANGED <<solverVars, domainVars>>
    \/ UploadCost /\ UNCHANGED <<solverVars, domainVars>>
    \/ ReadAccessors /\ UNCHANGED <<solverVars, domainVars>>
    \/ ComputeCost /\ UNCHANGED <<solverVars, domainVars>>
    \/ ComputeSelfConsumption /\ UNCHANGED <<solverVars, domainVars>>
    \/ GenerateStandard /\ UNCHANGED <<solverVars, domainVars>>
    \/ GenerateRouter /\ UNCHANGED <<solverVars, domainVars>>

Spec == Init /\ [][Next]_vars

(***************************************************************************)
(* The self-consumption ratio over contexts of either sign.                *)
(* ExternalContext.check_array (external_context.py 496-527) wants a numpy *)
(* row of N numbers and does not look at their sign.                       *)
(***************************************************************************)
HouseVals == { Num(-500), Num(350) }
SolarLevels == { Num(0), Num(200), Num(2675) }

MeasuredContexts ==
    { [MakeContext(N, 0) EXCEPT !.house_consumption = Some(ConstVec(N, h)),
                                !.solar_production = Some(ConstVec(N, s))] :
        N \in 1..MaxN, h \in HouseVals, s \in SolarLevels }

SelfConsumptionInit ==
    /\ \E cfg \in Configs, ctx \in MeasuredContexts, T0 \in InitialTemperatures :
            Constructed(Some(cfg), Some(ctx), Some(T0))
    /\ DomainConstructed
    /\ last = Call("__init__", "ok", None, None)
    /\ cost_src = None
    /\ sc_src = None
    /\ pc = "api"
    /\ inputs = None
    /\ res = None
    /\ created = TRUE
    /\ calls = <<>>
    /\ outcome = "api"

SelfConsumptionNext ==
    \/ AssignX /\ UNCHANGED <<solverVars, domainVars>>
    \/ UpdateX /\ UNCHANGED <<solverVars, domainVars>>
    \/ MakeSolverTraj /\ UNCHANGED <<solverVars, domainVars>>
    \/ UploadX /\ UNCHANGED <<solverVars, domainVars>>
    \/ ComputeSelfConsumption /\ UNCHANGED <<solverVars, domainVars>>

SelfConsumptionSpec == SelfConsumptionInit /\ [][SelfConsumptionNext]_vars

(***************************************************************************)
(* The router simulator on its own, with a thermostat setpoint that the    *)
(* tank may already have reached.                                          *)
(***************************************************************************)
RouterSetpoints == { None, Some(Num(55)), Some(Num(50)) }

GenerateRouterAt ==
    \E router_mode \in {"SELF_CONSUMPTION_ONLY", "COMFORT"}, sp \in RouterSetpoints :
        GenerateRouterOnlyTrajectory(router_mode, sp)

RouterInit ==
    /\ \E cfg \in Configs, ctx \in Contexts \cup RouterContexts, T0 \in InitialTemperatures :
            Constructed(Some(cfg), Some(ctx), Some(T0))
    /\ DomainConstructed
    /\ last = Call("__init__", "ok", None, None)
    /\ cost_src = None
    /\ sc_src = None
    /\ pc = "api"
    /\ inputs = None
    /\ res = None
    /\ created = TRUE
    /\ calls = <<>>
    /\ outcome = "api"

RouterNext ==
    \/ GenerateRouterAt /\ UNCHANGED <<solverVars, domainVars>>
    \/ UpdateX /\ UNCHANGED <<solverVars, domainVars>>
    \/ ReadAccessors /\ UNCHANGED <<solverVars, domainVars>>

RouterSpec == RouterInit /\ [][RouterNext]_vars

(***************************************************************************)
(* OptimizationInputs.get_bounds (optimisation_inputs.py 531-631).         *)
(***************************************************************************)
\* Every 0/1 availability vector of N steps, and the absent one.
AvailabilityVectors(N) == { None } \cup { Some(v) : v \in [1..N -> {Zero, One}] }

\* Contexts carrying an availability vector; some have lost their setpoints.
BoundsContexts ==
    { [MakeContext(N, p) EXCEPT !.future_setpoints = IF sp THEN @ ELSE None]
        @@ [availability_on |-> a] :
      N \in 1..MaxN, p \in 0..1, a \in UNION { AvailabilityVectors(n) : n \in 1..MaxN },
      sp \in BOOLEAN } 

BoundsInputs ==
    { inp \in [system_config : Configs, context : BoundsContexts,
               initial_temperature : InitialTemperatures, mode : {"COST", "AUTOCONS"}] :
        inp.context.availability_on = None
          \/ Len(Val(inp.context.availability_on)) = inp.context.N }

\* Lines 531-568: L_B = [0(N) | 0, future_setpoints | 0(N) | 0(N)].
BuildLowerBounds(inp) ==
    ConstVec(inp.context.N, Zero) \o <<Zero>> \o Val(inp.context.future_setpoints)
      \o ConstVec(inp.context.N, Zero) \o ConstVec(inp.context.N, Zero)

\* Mutant: the availability vector is not read.
BuildUpperBounds_AlwaysAvailable(inp) ==
    [i \in 1..(4 * inp.context.N + 1) |->
        IF i <= inp.context.N THEN Some(One)
        ELSE IF i <= 2 * inp.context.N + 1 THEN Some(inp.system_config.T_max_safe)
        ELSE None]

\* Lines 570-601: U_B = [availability_on or 1(N) | T_max_safe(N+1) | inf(N) | inf(N)];
\* an infinite bound is None, as get_bounds hands it to the solver (line 625).
BuildUpperBounds(inp) ==
    [i \in 1..(4 * inp.context.N + 1) |->
        IF i <= inp.context.N
        THEN IF inp.context.availability_on = None THEN Some(One)
             ELSE Some(Val(inp.context.availability_on)[i])
        ELSE IF i <= 2 * inp.context.N + 1 THEN Some(inp.system_config.T_max_safe)
        ELSE None]

\* Lines 546-549: the lower bounds need the future setpoints.
GetBoundsOutcome(inp) ==
    IF inp.context.future_setpoints = None THEN "NotEnoughVariables" ELSE "ok"

\* Lines 603-631: the list of (lower, upper) pairs.
GetBoundsList(inp) ==
    [i \in 1..(4 * inp.context.N + 1) |-> <<BuildLowerBounds(inp)[i], BuildUpperBounds(inp)[i]>>]

GetBounds ==
    /\ inputs # None
    /\ LET inp == Val(inputs)
           r == GetBoundsOutcome(inp)
       IN  last' = Call("get_bounds", r, inputs,
                        IF r = "ok" THEN Some(GetBoundsList(inp)) ELSE None)
    /\ UNCHANGED <<mode, X, cost, self_consumption, config_system, context,
                   initial_temperature, cost_src, sc_src>>
    /\ UNCHANGED <<pc, inputs, res, created, calls, outcome>>

BoundsInit ==
    /\ Constructed(None, None, None)
    /\ DomainConstructed
    /\ last = Call("OptimizationInputs", "ok", None, None)
    /\ cost_src = None
    /\ sc_src = None
    /\ pc = "inputs"
    /\ inputs \in { Some(inp) : inp \in BoundsInputs }
    /\ res = None
    /\ created = FALSE
    /\ calls = <<>>
    /\ outcome = "api"

BoundsNext ==
    \/ GetBounds /\ UNCHANGED domainVars

BoundsSpec == BoundsInit /\ [][BoundsNext]_vars

(***************************************************************************)
(* The equality system of OptimizationInputs (optimisation_inputs.py       *)
(* 204-478), a matrix being the sequence of its rows, and a trajectory     *)
(* object used next to the OptimizationInputs of its config and context.   *)
(***************************************************************************)
\* A row of zeros but for the <<column, value>> pairs of entries.
Row(len, entries) ==
    [j \in 1..len |-> IF \E e \in entries : e[1] = j
                      THEN (CHOOSE e \in entries : e[1] = j)[2] ELSE Zero]

\* Lines 287-299: one row, 1 on T_0.
BuildAInit(inp) == << Row(4 * inp.context.N + 1, { <<inp.context.N + 1, One>> }) >>

\* Lines 317-319.
BuildBInit(inp) == << inp.initial_temperature >>

\* Lines 345-358: K_gain and vec_rho as _build_A_thermo computes them.
ThermoGain(inp) ==
    Div(Mul(inp.system_config.power, Num(inp.context.step_minutes * 60)),
        Mul(inp.system_config.volume, Num(4185)))

ThermoRho(inp) ==
    [t \in 1..inp.context.N |-> Div(Val(inp.context.water_draws)[t], inp.system_config.volume)]

\* Mutant: the mixing with cold water is left out of the T_t coefficient.
BuildAThermo_NoMixing(inp) ==
    LET N == inp.context.N IN
    [t \in 1..N |-> Row(4 * N + 1, { <<t, Neg(ThermoGain(inp))>>,
                                     <<N + t, Neg(One)>>,
                                     <<N + t + 1, One>> })]

\* Lines 341-392: row t is -K_gain on x_t, -(1 - rho_t) on T_t, 1 on T_t+1.
BuildAThermo(inp) ==
    LET N == inp.context.N IN
    [t \in 1..N |-> Row(4 * N + 1, { <<t, Neg(ThermoGain(inp))>>,
                                     <<N + t, Neg(Sub(One, ThermoRho(inp)[t]))>>,
                                     <<N + t + 1, One>> })]

\* Lines 414-426: B[t] = rho_t * T_froide - heat_loss_coefficient * step_minutes.
BuildBThermo(inp) ==
    [t \in 1..inp.context.N |->
        Sub(Mul(ThermoRho(inp)[t], inp.system_config.T_cold_water),
            Mul(inp.system_config.heat_loss_coefficient, Num(inp.context.step_minutes)))]

\* Lines 446-456: row t is -P_max on x_t, 1 on I_t, -1 on E_t.
BuildAElec(inp) ==
    LET N == inp.context.N IN
    [t \in 1..N |-> Row(4 * N + 1, { <<t, Neg(inp.system_config.power)>>,
                                     <<2 * N + 1 + t, One>>,
                                     <<3 * N + 1 + t, Neg(One)>> })]

\* Line 478.
BuildBElec(inp) ==
    [t \in 1..inp.context.N |->
        Sub(Val(inp.context.house_consumption)[t], Val(inp.context.solar_production)[t])]

\* Lines 219-223.
A_eq(inp) == BuildAInit(inp) \o BuildAThermo(inp) \o BuildAElec(inp)

\* Lines 239-243.
B_eq(inp) == BuildBInit(inp) \o BuildBThermo(inp) \o BuildBElec(inp)

\* Lines 335-340: what A_eq raises.
AEqOutcome(inp) ==
    IF inp.context.water_draws = None THEN "NotEnoughVariables" ELSE "ok"

\* Lines 412-413 and 474-477: what B_eq raises.
BEqOutcome(inp) ==
    IF inp.context.water_draws = None THEN "NotEnoughVariables"
    ELSE IF inp.context.house_consumption = None THEN "NotEnoughVariables"
    ELSE IF inp.context.solar_production = None THEN "NotEnoughVariables"
    ELSE "ok"

\* Lines 494-499: what C_cost raises.
CCostOutcome(inp) ==
    IF inp.context.prices_purchases = None THEN "NotEnoughVariables"
    ELSE IF inp.context.prices_sell = None THEN "NotEnoughVariables"
    ELSE "ok"

\* OptimizationInputs(config, context, initial_temperature, COST) of the
\* trajectory's own config and context; no availability vector was set.
InputsOfTrajectory ==
    [system_config |-> Val(config_system),
     context |-> Val(context) @@ [availability_on |-> None],
     initial_temperature |-> Val(initial_temperature), mode |-> "COST"]

\* One of A_eq(), B_eq(), get_bounds(), C_cost() on these inputs.
BuildLP ==
    /\ config_system # None /\ context # None /\ initial_temperature # None
    /\ \E builder \in {"A_eq", "B_eq", "get_bounds", "C_cost"} :
        LET inp == InputsOfTrajectory
            r == CASE builder = "A_eq" -> AEqOutcome(inp)
                   [] builder = "B_eq" -> BEqOutcome(inp)
                   [] builder = "get_bounds" -> GetBoundsOutcome(inp)
                   [] builder = "C_cost" -> CCostOutcome(inp)
            ret == CASE builder = "A_eq" -> A_eq(inp)
                     [] builder = "B_eq" -> B_eq(inp)
                     [] builder = "get_bounds" -> GetBoundsList(inp)
                     [] builder = "C_cost" -> C_cost(inp.context)
        IN  last' = Call(builder, r, None, IF r = "ok" THEN Some(ret) ELSE None)
    /\ UNCHANGED <<mode, X, cost, self_consumption, config_system, context,
                   initial_temperature, cost_src, sc_src>>

BuildersInit ==
    /\ \E cfg \in Configs, T0 \in InitialTemperatures,
          ctx \in { MakeContext(N, 0) : N \in 1..MaxN } \cup PartialContexts :
            Constructed(Some(cfg), Some(ctx), Some(T0))
    /\ DomainConstructed
    /\ last = Call("__init__", "ok", None, None)
    /\ cost_src = None
    /\ sc_src = None
    /\ pc = "api"
    /\ inputs = None
    /\ res = None
    /\ created = TRUE
    /\ calls = <<>>
    /\ outcome = "api"

BuildersNext ==
    \/ AssignX /\ UNCHANGED <<solverVars, domainVars>>
    \/ UpdateX /\ UNCHANGED <<solverVars, domainVars>>
    \/ ComputeCost /\ UNCHANGED <<solverVars, domainVars>>
    \/ ComputeSelfConsumption /\ UNCHANGED <<solverVars, domainVars>>
    \/ GenerateStandard /\ UNCHANGED <<solverVars, domainVars>>
    \/ GenerateRouter /\ UNCHANGED <<solverVars, domainVars>>
    \/ BuildLP /\ UNCHANGED <<solverVars, domainVars>>

BuildersSpec == BuildersInit /\ [][BuildersNext]_vars

(***************************************************************************)
(* TimeSlot (domain/common.py) and Constraints (domain/constraints.py).    *)
(* A datetime.time is its number of seconds since midnight.                *)
(***************************************************************************)
MaxSlots == 2

\* The engine idles while a domain object is exercised.
EngineIdle ==
    /\ Constructed(None, None, None)
    /\ cost_src = None
    /\ sc_src = None
    /\ pc = "api"
    /\ inputs = None
    /\ res = None
    /\ created = TRUE
    /\ calls = <<>>
    /\ outcome = "api"

\* 00:00, 08:00, 09:30, 10:00 and 23:59:59.
TimePoints == {0, 28800, 34200, 36000, 86399}

\* common.py lines 39-42: TimeSlot.__init__ refuses start >= end.
TimeSlotOutcome(start, end) == IF start >= end THEN "ValueError" ELSE "ok"
TimeSlot(start, end) == [type |-> "TimeSlot", start |-> start, end |-> end]

\* common.py line 59: TimeSlot.__lt__ compares the start times.
SlotLt(a, b) == a.start < b.start

\* Mutant: two slots that start together are not seen as overlapping.
Overlaps_StartsApart(a, b) == a.start < b.end /\ b.start < a.end /\ a.start # b.start

\* common.py line 76: TimeSlot.overlaps.
Overlaps(a, b) == a.start < b.end /\ b.start < a.end

\* common.py lines 104-106: TimeSlot.duration_minutes reads hour and minute only.
MinuteOfDay(t) == (t \div 3600) * 60 + ((t % 3600) \div 60)
DurationMinutes(c) == MinuteOfDay(c.end) - MinuteOfDay(c.start)

\* sorted() / list.sort(): stable, and by __lt__ only.
InsertSlot(c, sorted_list) ==
    LET later == { i \in 1..Len(sorted_list) : SlotLt(c, sorted_list[i]) }
        k == IF later = {} THEN Len(sorted_list) + 1
             ELSE CHOOSE i \in later : \A j \in later : i <= j
    IN  SubSeq(sorted_list, 1, k - 1) \o <<c>> \o SubSeq(sorted_list, k, Len(sorted_list))

RECURSIVE SortedSlots(_)
SortedSlots(slot_list) ==
    IF slot_list = <<>> THEN <<>>
    ELSE InsertSlot(slot_list[Len(slot_list)],
                    SortedSlots(SubSeq(slot_list, 1, Len(slot_list) - 1)))

RECURSIVE TotalMinutes(_)
TotalMinutes(slot_list) ==
    IF slot_list = <<>> THEN 0
    ELSE DurationMinutes(Head(slot_list)) + TotalMinutes(Tail(slot_list))

\* constraints.py line 248: MINUTES_24H = 24 * 60.
MINUTES_24H == 1440

\* constraints.py lines 213-251: Constraints._validate_coherence.
ValidateCoherence(slot_list) ==
    IF slot_list = <<>> THEN "ok"
    ELSE LET liste_triee == SortedSlots(slot_list) IN
         IF \E i \in 1..(Len(liste_triee) - 1) : Overlaps(liste_triee[i], liste_triee[i + 1])
         THEN "ValueError"
         ELSE IF TotalMinutes(liste_triee) >= MINUTES_24H THEN "ValueError"
         ELSE "ok"

\* constraints.py lines 267-299: the forbidden_slots setter.
ForbiddenSlotsSetterOutcome(new_slots) ==
    IF ~new_slots.is_list THEN "TypeError"
    ELSE IF \E i \in 1..Len(new_slots.items) : new_slots.items[i].type # "TimeSlot"
    THEN "TypeError"
    ELSE ValidateCoherence(new_slots.items)

SetForbiddenSlots(new_slots) ==
    LET r == ForbiddenSlotsSetterOutcome(new_slots) IN
    /\ last' = Call("forbidden_slots_setter", r, None, None)
    /\ forbidden_slots' = IF r = "ok" THEN SortedSlots(new_slots.items) ELSE forbidden_slots
    /\ UNCHANGED engineVars

\* The objects a caller may put in the list: every TimeSlot over TimePoints and
\* one string.
SlotObjects ==
    { TimeSlot(p[1], p[2]) : p \in { q \in TimePoints \X TimePoints : q[1] < q[2] } }
      \cup { [type |-> "str", start |-> 0, end |-> 0] }

ForbiddenSlotsInputs ==
    { [is_list |-> FALSE, items |-> <<>>] }
      \cup { [is_list |-> TRUE, items |-> l] :
                l \in UNION { [1..n -> SlotObjects] : n \in 0..MaxSlots } }

AssignForbiddenSlots == \E new_slots \in ForbiddenSlotsInputs : SetForbiddenSlots(new_slots)

\* constraints.py lines 374-405: add_forbidden_slot.
AddForbiddenSlotOutcome(start, end) ==
    IF TimeSlotOutcome(start, end) # "ok" THEN "ValueError"
    ELSE ValidateCoherence(Append(forbidden_slots, TimeSlot(start, end)))

AddForbiddenSlot(start, end) ==
    LET r == AddForbiddenSlotOutcome(start, end) IN
    /\ last' = Call("add_forbidden_slot", r, Some(<<start, end>>), None)
    /\ forbidden_slots' = IF r = "ok"
                          THEN SortedSlots(Append(forbidden_slots, TimeSlot(start, end)))
                          ELSE forbidden_slots
    /\ UNCHANGED engineVars

AddForbidden == \E start \in TimePoints, end \in TimePoints : AddForbiddenSlot(start, end)

ConstraintsInit ==
    /\ EngineIdle
    /\ client = None /\ client_dict = None /\ service = None
    /\ ConstraintsConstructed
    /\ PricesConstructed(None)
    /\ PlanningConstructed
    /\ last = Call("Constraints", "ok", None, None)

ConstraintsNext ==
    \/ AssignForbiddenSlots /\ UNCHANGED exceptConstraints
    \/ AddForbidden /\ UNCHANGED exceptConstraints

ConstraintsSpec == ConstraintsInit /\ [][ConstraintsNext]_vars

(***************************************************************************)
(* Prices (domain/prices_model.py).                                        *)
(***************************************************************************)
\* Lines 288-290: the mode setter.
ModeSetterOutcome(valeur) == IF valeur \in {"HPHC", "BASE"} THEN "ok" ELSE "ValueError"

SetPricesMode(valeur) ==
    LET r == ModeSetterOutcome(valeur) IN
    /\ last' = Call("mode_setter", r, Some(valeur), None)
    /\ prices' = IF r = "ok" THEN [prices EXCEPT !.mode = valeur] ELSE prices
    /\ UNCHANGED engineVars

AssignPricesMode == \E valeur \in {"HPHC", "BASE", "TEMPO"} : SetPricesMode(valeur)

\* Mutant: a list worth no minute is let through.
HpTotalOutcome_ZeroAccepted(total_minutes) ==
    IF total_minutes >= 24 * 60 THEN "ValueError" ELSE "ok"

\* Lines 359-363: the peak hours cover neither the whole day nor nothing.
HpTotalOutcome(total_minutes) ==
    IF total_minutes >= 24 * 60 THEN "ValueError"
    ELSE IF total_minutes = 0 THEN "ValueError"
    ELSE "ok"

\* Lines 335-363: the hp_slots setter's checks, for a Prices object in mode m.
HpSlotsChecks(m, nouvelle_liste) ==
    IF m # "HPHC" THEN "ModeIncompatibleError"
    ELSE IF ~nouvelle_liste.is_list THEN "TypeError"
    ELSE IF \E i \in 1..Len(nouvelle_liste.items) : nouvelle_liste.items[i].type # "TimeSlot"
    THEN "TypeError"
    ELSE LET liste_triee == SortedSlots(nouvelle_liste.items) IN
         IF \E i \in 1..(Len(liste_triee) - 1) :
                \/ Overlaps(liste_triee[i], liste_triee[i + 1])
                \/ liste_triee[i].end > liste_triee[i + 1].start
         THEN "ValueError"
         ELSE HpTotalOutcome(TotalMinutes(liste_triee))

HpSlotsSetterOutcome(nouvelle_liste) == HpSlotsChecks(prices.mode, nouvelle_liste)

\* Line 365: the sorted list is stored.
SetHpSlots(nouvelle_liste) ==
    LET r == HpSlotsSetterOutcome(nouvelle_liste) IN
    /\ last' = Call("hp_slots_setter", r, None, None)
    /\ prices' = IF r = "ok"
                 THEN [prices EXCEPT !.hp_slots = SortedSlots(nouvelle_liste.items)]
                 ELSE prices
    /\ UNCHANGED engineVars

\* 10:00:30 shares its minute with 10:00.
HpTimePoints == TimePoints \cup {36030}

HpSlotObjects ==
    { TimeSlot(q[1], q[2]) : q \in { r \in HpTimePoints \X HpTimePoints : r[1] < r[2] } }
      \cup { [type |-> "str", start |-> 0, end |-> 0] }

HpSlotsInputs ==
    { [is_list |-> FALSE, items |-> <<>>] }
      \cup { [is_list |-> TRUE, items |-> l] :
                l \in UNION { [1..n -> HpSlotObjects] : n \in 0..MaxSlots } }

AssignHpSlots == \E nouvelle_liste \in HpSlotsInputs : SetHpSlots(nouvelle_liste)

PricesInit ==
    /\ EngineIdle
    /\ client = None /\ client_dict = None /\ service = None
    /\ ConstraintsConstructed
    /\ PlanningConstructed
    /\ \E m \in {None, Some("BASE"), Some("HPHC")} : PricesConstructed(m)
    /\ last = Call("Prices", "ok", None, None)

PricesNext ==
    \/ AssignPricesMode /\ UNCHANGED exceptPrices
    \/ AssignHpSlots /\ UNCHANGED exceptPrices

PricesSpec == PricesInit /\ [][PricesNext]_vars

(***************************************************************************)
(* Setpoint and Planning (domain/consignes_models.py).                     *)
(***************************************************************************)
MaxList == 2

Setpoint(day, time_of_day, temperature, volume) ==
    [type |-> "Setpoint", day |-> day, time |-> time_of_day,
     temperature |-> temperature, drawn_volume |-> volume]

\* Line 204: Setpoint.__lt__ compares (day, time).
SetpointLt(a, b) == a.day < b.day \/ (a.day = b.day /\ a.time < b.time)

\* Line 268: cle = (c.day, c.time).
Cle(c) == <<c.day, c.time>>

\* Mutant: the later of two equally hot setpoints wins.
Hotter_OrEqual(c, consigne_existante) == c.temperature >= consigne_existante.temperature

\* Line 277: the new entry replaces the kept one only when strictly hotter.
Hotter(c, consigne_existante) == c.temperature > consigne_existante.temperature

\* Lines 266-281: the dictionary of the entries kept, in insertion order.
RECURSIVE UniqueConsignes(_, _)
UniqueConsignes(raw_list, unique_consignes) ==
    IF raw_list = <<>> THEN unique_consignes
    ELSE LET c == Head(raw_list)
             at == { i \in 1..Len(unique_consignes) : Cle(unique_consignes[i]) = Cle(c) }
         IN  UniqueConsignes(
                Tail(raw_list),
                IF at = {} THEN Append(unique_consignes, c)
                ELSE LET i == CHOOSE k \in at : TRUE IN
                     IF Hotter(c, unique_consignes[i])
                     THEN [unique_consignes EXCEPT ![i] = c]
                     ELSE unique_consignes)

\* list.sort(): stable, by __lt__ only.
InsertSetpoint(c, sorted_list) ==
    LET later == { i \in 1..Len(sorted_list) : SetpointLt(c, sorted_list[i]) }
        k == IF later = {} THEN Len(sorted_list) + 1
             ELSE CHOOSE i \in later : \A j \in later : i <= j
    IN  SubSeq(sorted_list, 1, k - 1) \o <<c>> \o SubSeq(sorted_list, k, Len(sorted_list))

RECURSIVE SortedSetpoints(_)
SortedSetpoints(l) ==
    IF l = <<>> THEN <<>>
    ELSE InsertSetpoint(l[Len(l)], SortedSetpoints(SubSeq(l, 1, Len(l) - 1)))

\* Lines 249-286: Planning._clean_and_sort.
CleanAndSort(raw_list) == SortedSetpoints(UniqueConsignes(raw_list, <<>>))

\* Lines 319-327: the setpoints setter.
SetpointsSetterOutcome(nouvelle_liste) ==
    IF ~nouvelle_liste.is_list THEN "TypeError"
    ELSE IF \E i \in 1..Len(nouvelle_liste.items) : nouvelle_liste.items[i].type # "Setpoint"
    THEN "TypeError"
    ELSE "ok"

SetSetpoints(nouvelle_liste) ==
    LET r == SetpointsSetterOutcome(nouvelle_liste) IN
    /\ last' = Call("setpoints_setter", r, Some(nouvelle_liste), None)
    /\ setpoints' = IF r = "ok" THEN CleanAndSort(nouvelle_liste.items) ELSE setpoints
    /\ round_trip' = None
    /\ UNCHANGED engineVars

\* Monday 06:00, Monday 18:00 and Sunday 06:00.
SetpointKeys == { <<0, 21600>>, <<0, 64800>>, <<6, 21600>> }

Setpoints ==
    { Setpoint(k[1], k[2], t, v) : k \in SetpointKeys, t \in {40, 60}, v \in {30, 50} }

\* What a caller puts in a list: two setpoints that tie on Monday 18:00, a
\* hotter one for the same key, one for Sunday 06:00, and a string.
ListObjects ==
    { Setpoint(0, 64800, 40, 30), Setpoint(0, 64800, 40, 50), Setpoint(0, 64800, 60, 30),
      Setpoint(6, 21600, 60, 50),
      [type |-> "str", day |-> 0, time |-> 0, temperature |-> 0, drawn_volume |-> 0] }

SetpointsInputs ==
    { [is_list |-> FALSE, items |-> <<>>] }
      \cup { [is_list |-> TRUE, items |-> l] :
                l \in UNION { [1..n -> ListObjects] : n \in 0..MaxList } }

AssignSetpoints == \E nouvelle_liste \in SetpointsInputs : SetSetpoints(nouvelle_liste)

\* Lines 331-353: add_setpoint.
AddSetpointOutcome(consigne) == IF consigne.type # "Setpoint" THEN "TypeError" ELSE "ok"

AddSetpoint(consigne) ==
    LET r == AddSetpointOutcome(consigne) IN
    /\ last' = Call("add_setpoint", r, Some(consigne), None)
    /\ setpoints' = IF r = "ok" THEN CleanAndSort(Append(setpoints, consigne)) ELSE setpoints
    /\ round_trip' =
          IF r = "ok"
          THEN Some([phase |-> "added", cle |-> Cle(consigne), len |-> Len(setpoints),
                     had_key |-> \E i \in 1..Len(setpoints) : Cle(setpoints[i]) = Cle(consigne)])
          ELSE None
    /\ UNCHANGED engineVars

AddOneSetpoint ==
    \E consigne \in Setpoints \cup
            { [type |-> "str", day |-> 0, time |-> 0, temperature |-> 0, drawn_volume |-> 0] } :
        AddSetpoint(consigne)

\* Mutant: the whole day of the key is dropped.
Kept_OtherDays(c, jour, heure) == ~(c.day = jour)

\* Lines 373-376: the entries remove_setpoint keeps.
Kept(c, jour, heure) == ~(c.day = jour /\ c.time = heure)

\* Lines 355-377: remove_setpoint.
RemoveSetpoint(jour, heure) ==
    LET taille_avant == Len(setpoints)
        kept == SelectSeq(setpoints, LAMBDA c : Kept(c, jour, heure))
    IN  /\ last' = Call("remove_setpoint", "ok", Some(<<jour, heure>>),
                        Some(Len(kept) < taille_avant))
        /\ setpoints' = kept
        /\ round_trip' =
              IF round_trip # None /\ Val(round_trip).phase = "added"
                 /\ Val(round_trip).cle = <<jour, heure>>
              THEN Some([Val(round_trip) EXCEPT !.phase = "removed"])
              ELSE None
        /\ UNCHANGED engineVars

RemoveOneSetpoint ==
    \E k \in SetpointKeys \cup { <<3, 21600>> } : RemoveSetpoint(k[1], k[2])

\* Lines 379-390: clear.
Clear ==
    /\ last' = Call("clear", "ok", None, None)
    /\ setpoints' = <<>>
    /\ round_trip' = None
    /\ UNCHANGED engineVars

\* Lines 425-426: _to_minutes, minutes since Monday 00:00; seconds are dropped.
ToMinutes(j, h) == j * 24 * 60 + MinuteOfDay(h)

\* Line 433: minutes_semaine = 7 * 24 * 60.
minutes_semaine == 10080

\* Mutant: the next week is not looked at.
InHorizon_ThisWeek(t_consigne, t_debut, t_fin) ==
    t_debut <= t_consigne /\ t_consigne <= t_fin

\* Lines 440-445: case A, this week; case B, next week.
InHorizon(t_consigne, t_debut, t_fin) ==
    IF t_debut <= t_consigne /\ t_consigne <= t_fin THEN TRUE
    ELSE t_consigne + minutes_semaine <= t_fin

\* Lines 447-451: cle_de_tri_relatif.
CleDeTriRelatif(consigne, t_debut) ==
    LET t_abs == ToMinutes(consigne.day, consigne.time) IN
    IF t_abs < t_debut THEN t_abs + minutes_semaine ELSE t_abs

\* list.sort(key=...): stable.
InsertByKey(c, sorted_list, t_debut) ==
    LET later == { i \in 1..Len(sorted_list) :
                     CleDeTriRelatif(c, t_debut) < CleDeTriRelatif(sorted_list[i], t_debut) }
        k == IF later = {} THEN Len(sorted_list) + 1
             ELSE CHOOSE i \in later : \A j \in later : i <= j
    IN  SubSeq(sorted_list, 1, k - 1) \o <<c>> \o SubSeq(sorted_list, k, Len(sorted_list))

RECURSIVE SortedByKey(_, _)
SortedByKey(l, t_debut) ==
    IF l = <<>> THEN <<>>
    ELSE InsertByKey(l[Len(l)], SortedByKey(SubSeq(l, 1, Len(l) - 1), t_debut), t_debut)

\* Lines 392-456: get_future_setpoints with an explicit anchor.
FutureSetpointsOf(liste, jour_actuel, heure_actuelle, horizon_heures) ==
    IF liste = <<>> THEN <<>>
    ELSE LET t_debut == ToMinutes(jour_actuel, heure_actuelle)
             t_fin == t_debut + horizon_heures * 60
             resultat == SelectSeq(liste,
                            LAMBDA c : InHorizon(ToMinutes(c.day, c.time), t_debut, t_fin))
         IN  SortedByKey(resultat, t_debut)

FutureSetpoints(jour_actuel, heure_actuelle, horizon_heures) ==
    FutureSetpointsOf(setpoints, jour_actuel, heure_actuelle, horizon_heures)

GetFutureSetpoints(jour_actuel, heure_actuelle, horizon_heures) ==
    /\ last' = Call("get_future_setpoints", "ok",
                    Some(<<jour_actuel, heure_actuelle, horizon_heures>>),
                    Some(FutureSetpoints(jour_actuel, heure_actuelle, horizon_heures)))
    /\ round_trip' = None
    /\ UNCHANGED <<setpoints, engineVars>>

\* Anchors on Monday, Thursday and Sunday, at 06:00 and 18:00:30, looking 12 h,
\* 24 h and a whole week ahead.
GetFuture ==
    \E jour_actuel \in {0, 3, 6}, heure_actuelle \in {21600, 64830},
       horizon_heures \in {12, 24, 168} :
        GetFutureSetpoints(jour_actuel, heure_actuelle, horizon_heures)

PlanningInit ==
    /\ EngineIdle
    /\ client = None /\ client_dict = None /\ service = None
    /\ ConstraintsConstructed
    /\ PricesConstructed(None)
    /\ PlanningConstructed
    /\ last = Call("Planning", "ok", None, None)

PlanningNext ==
    \/ AssignSetpoints /\ UNCHANGED exceptPlanning
    \/ AddOneSetpoint /\ UNCHANGED exceptPlanning
    \/ RemoveOneSetpoint /\ UNCHANGED exceptPlanning
    \/ Clear /\ UNCHANGED exceptPlanning
    \/ GetFuture /\ UNCHANGED exceptPlanning

PlanningSpec == PlanningInit /\ [][PlanningNext]_vars

(***************************************************************************)
(* domain/client.py: Client.to_dict and Client.from_dict.                  *)
(*                                                                         *)
(* A dict is a record of its keys; a key holds None when it is absent,     *)
(* Some(None) when it is present with Python's None, and Some(Some(v))     *)
(* when it is present with the value v.  Prices are counted in cents.  A   *)
(* "%H:%M" string is the minute of the day it prints.                      *)
(***************************************************************************)
PyNone == None
Present(v) == Some(Some(v))
Get(key, default) == IF key = None THEN default ELSE Val(key)

\* The setters' test "isinstance(valeur, (int, float)) and valeur >= 0".
IsPositiveNumber(v) == v # PyNone /\ Val(v) >= 0

\* client.py lines 275-276, 284-290: strftime("%H:%M") of each slot.
SlotsToDict(slots) ==
    [i \in 1..Len(slots) |->
        [start |-> MinuteOfDay(slots[i].start), end |-> MinuteOfDay(slots[i].end)]]

\* client.py lines 86-104: _parse_time_str, strptime(..., "%H:%M").time().
ParseTimeStr(time_str) == time_str * 60

\* client.py lines 258-332: Client.to_dict.
ToDict(c) ==
    [client_id |-> c.client_id,
     water_heater |->
        [volume |-> Present(c.water_heater.volume),
         power |-> Present(c.water_heater.power),
         insulation_coeff |-> Present(c.water_heater.insulation_coefficient),
         temp_cold_water |-> Present(c.water_heater.cold_water_temperature)],
     prices |->
        [mode |-> Present(c.prices.mode),
         hp_price |-> IF c.prices.mode = "HPHC" THEN Present(c.prices.hp) ELSE Some(PyNone),
         hc_price |-> IF c.prices.mode = "HPHC" THEN Present(c.prices.hc) ELSE Some(PyNone),
         base_price |-> IF c.prices.mode = "BASE" THEN Present(c.prices.base) ELSE Some(PyNone),
         resell_price |-> Present(c.prices.resale_price),
         hp_slots |-> IF c.prices.mode = "HPHC"
                      THEN Present(SlotsToDict(c.prices.hp_slots)) ELSE None],
     features |->
        [gradation |-> Present(c.features.gradation),
         mode |-> Present(c.features.mode)],
     constraints |->
        [min_temp |-> Present(c.constraints.minimum_temperature),
         forbidden_slots |-> SlotsToDict(c.constraints.forbidden_slots)],
     planning |->
        [i \in 1..Len(c.planning) |->
            [day |-> c.planning[i].day,
             time |-> MinuteOfDay(c.planning[i].time),
             target_temp |-> c.planning[i].temperature,
             volume |-> c.planning[i].drawn_volume]]]

\* client.py lines 128-135: the water heater; every setter wants a number >= 0.
WaterHeaterFromDict(wh_data) ==
    LET volume == Get(wh_data.volume, Some(0))
        power == Get(wh_data.power, Some(0))
    IN  IF ~IsPositiveNumber(volume) \/ ~IsPositiveNumber(power) THEN None
        ELSE IF wh_data.insulation_coeff # None
                /\ ~IsPositiveNumber(Val(wh_data.insulation_coeff)) THEN None
        ELSE IF wh_data.temp_cold_water # None
                /\ ~IsPositiveNumber(Val(wh_data.temp_cold_water)) THEN None
        ELSE Some([volume |-> Val(volume), power |-> Val(power),
                   insulation_coefficient |->
                       IF wh_data.insulation_coeff = None THEN 0
                       ELSE Val(Val(wh_data.insulation_coeff)),
                   cold_water_temperature |->
                       IF wh_data.temp_cold_water = None THEN 10
                       ELSE Val(Val(wh_data.temp_cold_water))])

\* prices_model.py lines 34-52: Prices() with no argument.
DefaultPrices ==
    [mode |-> "BASE", hp |-> 22, hc |-> 18, base |-> 20, resale_price |-> 10,
     hp_slots |-> <<>>]

\* prices_model.py lines 101-127, 147-172, 192-218: the hp, hc and base
\* setters call _check_mode(expected_mode) and then test the value.
PriceSetterOutcome(m, expected_mode, valeur) ==
    IF m # expected_mode THEN "ModeIncompatibleError"
    ELSE IF ~IsPositiveNumber(valeur) THEN "ValueError"
    ELSE "ok"

\* The TimeSlot objects built from a list of {"start", "end"} dicts, or None
\* when one constructor raises (common.py lines 18-42).
SlotsFromDict(slot_dicts) ==
    IF \E i \in 1..Len(slot_dicts) :
          TimeSlotOutcome(ParseTimeStr(slot_dicts[i].start),
                          ParseTimeStr(slot_dicts[i].end)) # "ok"
    THEN None
    ELSE Some([i \in 1..Len(slot_dicts) |->
                 TimeSlot(ParseTimeStr(slot_dicts[i].start),
                          ParseTimeStr(slot_dicts[i].end))])

AsList(items) == [is_list |-> TRUE, items |-> items]

\* client.py lines 137-156: the prices.
PricesFromDict(p_data) ==
    LET price_mode == Get(p_data.mode, Some("BASE")) IN
    IF price_mode = PyNone \/ ModeSetterOutcome(Val(price_mode)) # "ok" THEN None
    ELSE
    LET m == Val(price_mode) IN
    IF p_data.hp_price # None
       /\ PriceSetterOutcome(m, "HPHC", Val(p_data.hp_price)) # "ok" THEN None
    ELSE IF p_data.hc_price # None
       /\ PriceSetterOutcome(m, "HPHC", Val(p_data.hc_price)) # "ok" THEN None
    ELSE IF p_data.base_price # None
       /\ PriceSetterOutcome(m, "BASE", Val(p_data.base_price)) # "ok" THEN None
    ELSE IF p_data.resell_price # None
       /\ ~IsPositiveNumber(Val(p_data.resell_price)) THEN None
    ELSE
    LET p == [mode |-> m,
              hp |-> IF p_data.hp_price = None THEN DefaultPrices.hp
                     ELSE Val(Val(p_data.hp_price)),
              hc |-> IF p_data.hc_price = None THEN DefaultPrices.hc
                     ELSE Val(Val(p_data.hc_price)),
              base |-> IF p_data.base_price = None THEN DefaultPrices.base
                       ELSE Val(Val(p_data.base_price)),
              resale_price |-> IF p_data.resell_price = None
                               THEN DefaultPrices.resale_price
                               ELSE Val(Val(p_data.resell_price)),
              hp_slots |-> <<>>]
    IN  IF m = "HPHC" /\ p_data.hp_slots # None
        THEN LET time_slots == SlotsFromDict(Val(Val(p_data.hp_slots))) IN
             IF time_slots = None THEN None
             ELSE IF HpSlotsChecks(m, AsList(Val(time_slots))) # "ok" THEN None
             ELSE Some([p EXCEPT !.hp_slots = SortedSlots(Val(time_slots))])
        ELSE Some(p)

\* features_models.py: the values of the OptimizationMode enum.
OptimizationModeValues == {"cost", "AutoCons"}

\* client.py lines 158-167: the features; the default mode string is "COST".
FeaturesFromDict(f_data) ==
    LET mode_str == Get(f_data.mode, Some("COST"))
        gradation == Get(f_data.gradation, Some(FALSE))
    IN  IF mode_str = PyNone \/ Val(mode_str) \notin OptimizationModeValues THEN None
        ELSE IF gradation = PyNone THEN None
        ELSE Some([gradation |-> Val(gradation), mode |-> Val(mode_str)])

\* client.py lines 169-190: the constraints (constraints.py lines 179-210).
ConstraintsFromDict(c_data) ==
    LET slots == SlotsFromDict(c_data.forbidden_slots)
        min_temp == Get(c_data.min_temp, Some(10))
    IN  IF slots = None THEN None
        ELSE IF ForbiddenSlotsSetterOutcome(AsList(Val(slots))) # "ok" THEN None
        ELSE IF min_temp = PyNone \/ Val(min_temp) < 0 \/ Val(min_temp) > 95 THEN None
        ELSE Some([minimum_temperature |-> Val(min_temp),
                   forbidden_slots |-> SortedSlots(Val(slots))])

\* consignes_models.py lines 24-47 and the field setters: a Setpoint's checks.
SetpointOutcome(day, temperature, volume) ==
    IF day \notin 0..6 THEN "ValueError"
    ELSE IF temperature < 30 \/ temperature > 99 THEN "ValueError"
    ELSE IF volume < 0 THEN "ValueError"
    ELSE "ok"

\* client.py lines 192-206: the planning.
PlanningFromDict(raw_setpoints) ==
    IF \E i \in 1..Len(raw_setpoints) :
          SetpointOutcome(raw_setpoints[i].day, raw_setpoints[i].target_temp,
                          raw_setpoints[i].volume) # "ok"
    THEN None
    ELSE Some(CleanAndSort(
            [i \in 1..Len(raw_setpoints) |->
                Setpoint(raw_setpoints[i].day, ParseTimeStr(raw_setpoints[i].time),
                         raw_setpoints[i].target_temp, raw_setpoints[i].volume)]))

\* client.py lines 107-219: Client.from_dict; every exception raised on the
\* way leaves as a ValueError.
FromDict(data) ==
    LET water_heater == WaterHeaterFromDict(data.water_heater)
        p == PricesFromDict(data.prices)
        features == FeaturesFromDict(data.features)
        constraints == ConstraintsFromDict(data.constraints)
        planning == PlanningFromDict(data.planning)
    IN  IF water_heater = None \/ p = None \/ features = None
           \/ constraints = None \/ planning = None
        THEN [outcome |-> "ValueError", client |-> None]
        ELSE [outcome |-> "ok",
              client |-> Some([client_id |-> data.client_id,
                               water_heater |-> Val(water_heater),
                               prices |-> Val(p),
                               features |-> Val(features),
                               constraints |-> Val(constraints),
                               planning |-> Val(planning)])]

\* The clients the checks start from: each is an object the constructors and
\* setters of the domain classes accept.
ClientHpSlots == { <<>>, <<TimeSlot(28800, 36030)>>,
                   <<TimeSlot(0, 28800), TimeSlot(34200, 36000)>> }
ClientForbiddenSlots == { <<>>, <<TimeSlot(28800, 34200)>>, <<TimeSlot(36000, 36030)>> }
ClientPlannings == { <<>>, <<Setpoint(0, 21600, 60, 50)>>,
                     <<Setpoint(0, 21600, 60, 50), Setpoint(0, 21630, 40, 30)>> }

ValidClients ==
    { [client_id |-> 0,
       water_heater |-> [volume |-> 200, power |-> 2000,
                         insulation_coefficient |-> 0, cold_water_temperature |-> 10],
       prices |-> [DefaultPrices EXCEPT !.mode = m, !.hp_slots = hs],
       features |-> [gradation |-> g, mode |-> fm],
       constraints |-> [minimum_temperature |-> 10, forbidden_slots |-> fs],
       planning |-> pl] :
        m \in {"BASE", "HPHC"}, hs \in ClientHpSlots, g \in BOOLEAN,
        fm \in OptimizationModeValues, fs \in ClientForbiddenSlots,
        pl \in ClientPlannings }

\* A hand-written file names only the prices of its own tariff mode.
OwnModeOnly(d) ==
    [d EXCEPT !.prices.hp_price = IF d.prices.mode = Present("HPHC") THEN @ ELSE None,
              !.prices.hc_price = IF d.prices.mode = Present("HPHC") THEN @ ELSE None,
              !.prices.base_price = IF d.prices.mode = Present("BASE") THEN @ ELSE None]

\* The documents from_yaml_file may read: the hand-written form of every
\* client above, and the same with the features' mode left out.
YamlDocuments ==
    { OwnModeOnly(ToDict(c)) : c \in ValidClients }
    \cup { [OwnModeOnly(ToDict(c)) EXCEPT !.features.mode = None] :
             c \in { v \in ValidClients : v.planning = <<>> } }

\* c.to_dict() on the current client.
ClientToDict ==
    /\ client # None
    /\ client_dict' = Some(ToDict(Val(client)))
    /\ client' = client
    /\ last' = Call("to_dict", "ok", None, None)
    /\ UNCHANGED engineVars

\* Client.from_dict(d) on the dict the last to_dict returned.
ClientFromDict ==
    /\ client_dict # None
    /\ LET r == FromDict(Val(client_dict)) IN
       /\ last' = Call("from_dict", r.outcome, None, None)
       /\ client' = IF r.outcome = "ok" THEN r.client ELSE client
    /\ client_dict' = client_dict
    /\ UNCHANGED engineVars

\* client.py lines 240-256: Client.from_yaml_file, yaml.safe_load then from_dict.
ClientFromYamlFile ==
    \E data \in YamlDocuments :
        LET r == FromDict(data) IN
        /\ last' = Call("from_yaml_file", r.outcome, None, None)
        /\ client' = IF r.outcome = "ok" THEN r.client ELSE client
        /\ client_dict' = None
        /\ UNCHANGED engineVars

ClientInit ==
    /\ EngineIdle
    /\ ConstraintsConstructed
    /\ PricesConstructed(None)
    /\ PlanningConstructed
    /\ client \in { Some(c) : c \in ValidClients }
    /\ client_dict = None /\ service = None
    /\ last = Call("Client", "ok", None, None)

ClientNext ==
    \/ ClientToDict /\ UNCHANGED exceptClient
    \/ ClientFromDict /\ UNCHANGED exceptClient
    \/ ClientFromYamlFile /\ UNCHANGED exceptClient

ClientSpec == ClientInit /\ [][ClientNext]_vars

(***************************************************************************)
(* ExternalContext.from_client (engine/models/external_context.py 530-682). *)
(*                                                                         *)
(* A numpy array is [dtype, shape, data].  numpy.full(N, v) takes the      *)
(* dtype of v: int64 for a Python int, float64 for a float; numpy.zeros    *)
(* and numpy.ones are float64.  A reference datetime is its weekday and    *)
(* its second of the day.                                                  *)
(***************************************************************************)
NpArray(dtype, data) == [dtype |-> dtype, shape |-> <<Len(data)>>, data |-> data]
NpFloats(data) == NpArray("float64", data)
NpFull(N, v, py_type) ==
    NpArray(IF py_type = "int" THEN "int64" ELSE "float64", [i \in 1..N |-> v])

\* Mutant: check_array looks at the shape only.
CheckArray_ShapeOnly(Tab, N_expected) ==
    IF Tab.shape # <<N_expected>> THEN "DimensionNotRespected" ELSE "ok"

\* Lines 519-527: check_array.  Iterating an int64 array yields numpy.int64
\* scalars, which are instances of neither int nor float; numpy.float64 is a
\* subclass of float.
CheckArray(Tab, N_expected) ==
    IF Tab.shape # <<N_expected>> THEN "DimensionNotRespected"
    ELSE IF Tab.dtype # "float64" THEN "TypeError"
    ELSE "ok"

\* Lines 563-580: the checks on the arguments, and N.
FromClientArgsOutcome(horizon, time_step_minutes, solar_productions) ==
    IF horizon < 0 \/ horizon > 100 THEN "TypeError"
    ELSE IF time_step_minutes < 0 \/ 2 * time_step_minutes > horizon * 60 THEN "TypeError"
    ELSE IF time_step_minutes = 0 THEN "ZeroDivisionError"
    ELSE IF solar_productions = None THEN "ok"
    ELSE CheckArray(Val(solar_productions), (horizon * 60) \div time_step_minutes)

\* The time of day of reference_datetime + timedelta(minutes = i * step).
TimeAfter(heure, minutes) == (heure + minutes * 60) % 86400

\* Lines 610-613: t_start_week and t_evt_week read hour and minute only.
MinuteOfWeek(day, t) == day * 1440 + MinuteOfDay(t)

\* Mutant: an event earlier in the week than the start is not moved to the
\* next week.
Bucket_NoWrap(evt, jour, heure, time_step_minutes) ==
    LET delta_minutes == MinuteOfWeek(evt.day, evt.time) - MinuteOfWeek(jour, heure)
    IN  IF delta_minutes < 0 THEN -1 ELSE delta_minutes \div time_step_minutes

\* Lines 618-627: the bucket of an event, counted from 0.
Bucket(evt, jour, heure, time_step_minutes) ==
    LET delta_minutes == MinuteOfWeek(evt.day, evt.time) - MinuteOfWeek(jour, heure)
    IN  IF delta_minutes < 0
        THEN (delta_minutes + 7 * 24 * 60) \div time_step_minutes
        ELSE delta_minutes \div time_step_minutes

\* Lines 612-636: the loop over events_list; the pair <<w_draws,
\* future_setpoints_vec>> after the events not yet seen.
RECURSIVE PushEvents(_, _, _, _, _, _)
PushEvents(events_list, w_draws, future_setpoints_vec, jour, heure, time_step_minutes) ==
    IF events_list = <<>> THEN <<w_draws, future_setpoints_vec>>
    ELSE LET evt == Head(events_list)
             idx == Bucket(evt, jour, heure, time_step_minutes)
         IN  IF 0 <= idx /\ idx < Len(w_draws)
             THEN PushEvents(Tail(events_list),
                     [w_draws EXCEPT ![idx + 1] = Add(@, Num(evt.drawn_volume))],
                     [future_setpoints_vec EXCEPT ![idx + 1] = PyMax(@, Num(evt.temperature))],
                     jour, heure, time_step_minutes)
             ELSE PushEvents(Tail(events_list), w_draws, future_setpoints_vec,
                             jour, heure, time_step_minutes)

\* prices_model.py lines 383-394: get_current_purchase_price, in cents.
CurrentPurchasePrice(p, heure_test) ==
    IF p.mode = "BASE" THEN p.base
    ELSE IF \E i \in 1..Len(p.hp_slots) :
              p.hp_slots[i].start <= heure_test /\ heure_test < p.hp_slots[i].end
         THEN p.hp ELSE p.hc

\* constraints.py lines 421-428: is_allowed; common.py line 93: contains.
IsAllowed(slots, heure_test) ==
    ~ \E i \in 1..Len(slots) : slots[i].start <= heure_test /\ heure_test < slots[i].end

\* constraints.py line 30: the background of a ConsumptionProfile without matrix.
background_noise == 300

\* Lines 582-682: the vectors, then cls(...), whose setters run check_array on
\* every vector that is not None.
FromClient(c, jour, heure, solar_productions, horizon, time_step_minutes) ==
    LET r == FromClientArgsOutcome(horizon, time_step_minutes, solar_productions) IN
    IF r # "ok" THEN [outcome |-> r, context |-> None]
    ELSE
    LET N == (horizon * 60) \div time_step_minutes
        prices_sell == NpFull(N, Rat(c.prices.resale_price, 100), c.number_types.resale_price)
        h_cons == NpFloats([i \in 1..N |-> Num(background_noise)])
        events_list == FutureSetpointsOf(c.planning, jour, heure, horizon)
        pushed == PushEvents(events_list, [i \in 1..N |-> Zero],
                             [i \in 1..N |-> Num(c.constraints.minimum_temperature)],
                             jour, heure, time_step_minutes)
        w_draws == NpFloats(pushed[1])
        future_setpoints_vec ==
            NpArray(IF c.number_types.minimum_temperature = "int" THEN "int64" ELSE "float64",
                    pushed[2])
        t(i) == TimeAfter(heure, (i - 1) * time_step_minutes)
        prix == NpFloats([i \in 1..N |-> Rat(CurrentPurchasePrice(c.prices, t(i)), 100)])
        tab_availability ==
            NpFloats([i \in 1..N |->
                        IF IsAllowed(c.constraints.forbidden_slots, t(i)) THEN One ELSE Zero])
        off_peak_hours ==
            NpFloats([i \in 1..N |->
                        IF c.prices.mode = "HPHC"
                           /\ \E k \in 1..Len(c.prices.hp_slots) :
                                 c.prices.hp_slots[k].start <= t(i)
                                 /\ t(i) < c.prices.hp_slots[k].end
                        THEN Zero ELSE One])
        checks == << CheckArray(prix, N), CheckArray(prices_sell, N),
                     IF solar_productions = None THEN "ok"
                     ELSE CheckArray(Val(solar_productions), N),
                     CheckArray(h_cons, N), CheckArray(w_draws, N),
                     CheckArray(future_setpoints_vec, N),
                     CheckArray(tab_availability, N), CheckArray(off_peak_hours, N) >>
        failed == { k \in 1..Len(checks) : checks[k] # "ok" }
    IN  IF failed # {}
        THEN [outcome |-> checks[CHOOSE k \in failed : \A j \in failed : k <= j],
              context |-> None]
        ELSE [outcome |-> "ok",
              context |-> Some(
                [N |-> N, step_minutes |-> time_step_minutes,
                 prices_purchases |-> Some(prix.data),
                 prices_sell |-> Some(prices_sell.data),
                 solar_production |-> IF solar_productions = None THEN None
                                      ELSE Some(Val(solar_productions).data),
                 house_consumption |-> Some(h_cons.data),
                 water_draws |-> Some(w_draws.data),
                 future_setpoints |-> Some(future_setpoints_vec.data),
                 availability_on |-> Some(tab_availability.data),
                 off_peak_hours |-> Some(off_peak_hours.data)])]

\* The clients the context is assembled for.  The setters of
\* minimum_temperature and resale_price accept an int as well as a float.
ContextPlannings ==
    { <<>>,
      <<Setpoint(0, 1200, 50, 20), Setpoint(0, 21600, 60, 50),
        Setpoint(0, 22200, 40, 30), Setpoint(0, 25200, 55, 10)>>,
      <<Setpoint(0, 21600, 40, 15), Setpoint(0, 24600, 60, 40),
        Setpoint(6, 86280, 50, 25)>> }

ContextClients ==
    { [client_id |-> 0,
       water_heater |-> [volume |-> 200, power |-> 2000,
                         insulation_coefficient |-> 0, cold_water_temperature |-> 10],
       prices |-> [DefaultPrices EXCEPT !.mode = pm[1], !.hp_slots = pm[2]],
       features |-> [gradation |-> FALSE, mode |-> "cost"],
       constraints |-> [minimum_temperature |-> 45, forbidden_slots |-> fs],
       planning |-> pl,
       number_types |-> [minimum_temperature |-> tm, resale_price |-> tr]] :
        pm \in { <<"BASE", <<>> >>, <<"HPHC", <<TimeSlot(21600, 23400)>> >> },
        fs \in { <<>>, <<TimeSlot(22500, 25200)>> },
        pl \in ContextPlannings, tm \in {"int", "float"}, tr \in {"int", "float"} }

\* ExternalContext.from_client(client, reference_datetime, solar, horizon, step)
\* on Monday 06:00 or Sunday 23:55, with no solar vector or one of N zeros.
AssembleContext ==
    \E jour_heure \in { <<0, 21600>>, <<6, 86100>> }, horizon \in {1, 2},
       time_step_minutes \in {0, 15, 30, 60}, with_solar \in BOOLEAN :
        LET solar == IF with_solar /\ time_step_minutes > 0
                     THEN Some(NpFloats([i \in 1..((horizon * 60) \div time_step_minutes)
                                            |-> Zero]))
                     ELSE None
            r == FromClient(Val(client), jour_heure[1], jour_heure[2], solar,
                            horizon, time_step_minutes)
        IN  /\ last' = Call("from_client", r.outcome,
                            Some([jour |-> jour_heure[1], heure |-> jour_heure[2],
                                  horizon |-> horizon,
                                  time_step_minutes |-> time_step_minutes]),
                            r.context)
            /\ UNCHANGED <<client, client_dict, engineVars>>

ContextInit ==
    /\ EngineIdle
    /\ ConstraintsConstructed
    /\ PricesConstructed(None)
    /\ PlanningConstructed
    /\ client \in { Some(c) : c \in ContextClients }
    /\ client_dict = None /\ service = None
    /\ last = Call("Client", "ok", None, None)

ContextNext ==
    \/ AssembleContext /\ UNCHANGED exceptClient

ContextSpec == ContextInit /\ [][ContextNext]_vars

(***************************************************************************)
(* OptimizerService (engine/service.py).                                   *)
(*                                                                         *)
(* A forecast DataFrame is [kind, points]: kind tells a frame indexed by   *)
(* dates from one without any datetime and from an object that is no       *)
(* DataFrame; points are its rows in time order, [t, v] with t in minutes  *)
(* from start_datetime and v the production.                               *)
(***************************************************************************)
min_step_minutes == 5
MAX_HORIZON_HOURS == 48
MIN_HORIZON_HOURS == 1

Point(t, v) == [t |-> t, v |-> Num(v)]
Frame(points) == [kind |-> "frame", points |-> points]

HorizonInputs == {0, 1, 2, 4, 48, 49}
StepInputs == {1, 15, 30, 120}

Frames ==
    { [kind |-> "not_a_frame", points |-> <<>>],
      [kind |-> "no_datetime", points |-> <<Point(0, 100)>>],
      Frame(<<>>),
      Frame(<<Point(0, 0), Point(15, 100), Point(30, 300), Point(45, 200), Point(60, 100)>>),
      Frame(<<Point(0, 0), Point(60, 400)>>),
      Frame(<<Point(0, 0), Point(120, 400)>>),
      Frame(<<Point(15, 100), Point(60, 400)>>),
      Frame(<<Point(0, 100), Point(45, 400)>>),
      Frame(<<Point(-15, 0), Point(30, 300), Point(75, 600)>>),
      Frame(<<Point(0, 0), Point(240, 800)>>) }

\* Lines 85-90: the horizon setter.
HorizonSetterOutcome(valeur) ==
    IF MIN_HORIZON_HOURS <= valeur /\ valeur <= MAX_HORIZON_HOURS THEN "ok" ELSE "ValueError"

\* Lines 125-130: the step_minutes setter; valeur/60 > horizon/2 with integers.
StepSetterOutcome(valeur, horizon) ==
    IF 2 * valeur > 60 * horizon THEN "ValueError"
    ELSE IF valeur < min_step_minutes THEN "ValueError"
    ELSE "ok"

SetHorizon ==
    /\ service # None
    /\ \E valeur \in HorizonInputs :
        LET r == HorizonSetterOutcome(valeur) IN
        /\ service' = IF r = "ok" THEN Some([Val(service) EXCEPT !.horizon = valeur])
                      ELSE service
        /\ last' = Call("horizon", r, Some(valeur), service)
    /\ UNCHANGED <<client, client_dict, engineVars>>

SetStepMinutes ==
    /\ service # None
    /\ \E valeur \in StepInputs :
        LET r == StepSetterOutcome(valeur, Val(service).horizon) IN
        /\ service' = IF r = "ok" THEN Some([Val(service) EXCEPT !.step_minutes = valeur])
                      ELSE service
        /\ last' = Call("step_minutes", r, Some(valeur), service)
    /\ UNCHANGED <<client, client_dict, engineVars>>

\* Lines 342-345: the largest difference between consecutive dates, in minutes.
MaxGapMinutes(points) ==
    LET diffs == { points[i + 1].t - points[i].t : i \in 1..(Len(points) - 1) }
    IN  IF diffs = {} THEN 0 ELSE CHOOSE d \in diffs : \A e \in diffs : e <= d

\* Mutant: the gaps between the dates are not looked at.
IsDfValid_NoGapCheck(df, end, step_minutes) ==
    IF df.kind = "not_a_frame" THEN "TypeError"
    ELSE IF df.points = <<>> THEN "False"
    ELSE IF df.kind = "no_datetime" THEN "ValueError"
    ELSE IF df.points[1].t > 0 \/ df.points[Len(df.points)].t < end THEN "False"
    ELSE "True"

\* Lines 315-352: _is_df_valid(df, start, end), end in minutes after start.
IsDfValid(df, end, step_minutes) ==
    IF df.kind = "not_a_frame" THEN "TypeError"
    ELSE IF df.points = <<>> THEN "False"
    ELSE IF df.kind = "no_datetime" THEN "ValueError"
    ELSE IF df.points[1].t > 0 \/ df.points[Len(df.points)].t < end THEN "False"
    ELSE IF MaxGapMinutes(df.points) > 4 * step_minutes THEN "False"
    ELSE "True"

\* Lines 393-406: the value at minute t after the union of the indexes, the
\* interpolation in time, the reindexing on the target and bfill().ffill().
Interpolated(points, t) ==
    LET before == { i \in 1..Len(points) : points[i].t <= t }
        after == { i \in 1..Len(points) : points[i].t >= t }
        a == points[CHOOSE i \in before : \A j \in before : j <= i]
        b == points[CHOOSE i \in after : \A j \in after : i <= j]
    IN  IF before = {} /\ after = {} THEN NaN
        ELSE IF before = {} THEN b.v
        ELSE IF after = {} THEN a.v
        ELSE IF a.t = b.t THEN a.v
        ELSE Add(a.v, Div(Mul(Sub(b.v, a.v), Num(t - a.t)), Num(b.t - a.t)))

\* Lines 384-388: pd.date_range(start, end = start + horizon, freq = step),
\* both ends included.
TargetIndex(horizon, step_minutes) ==
    [k \in 1..((horizon * 60) \div step_minutes + 1) |-> (k - 1) * step_minutes]

\* Lines 383-408: the frame on the target grid.
NormalizeDf(df, horizon, step_minutes) ==
    LET target_index == TargetIndex(horizon, step_minutes)
    IN  [k \in 1..Len(target_index) |-> Interpolated(df.points, target_index[k])]

\* Lines 458-479: _to_array; the row vector has shape (1, len).
ToArray(df_normalized) ==
    IF df_normalized = <<>> THEN [outcome |-> "ValueError", array |-> None]
    ELSE IF \E k \in 1..Len(df_normalized) : df_normalized[k] = NaN
    THEN [outcome |-> "ValueError", array |-> None]
    ELSE [outcome |-> "ok",
          array |-> Some([dtype |-> "float64", shape |-> <<1, Len(df_normalized)>>,
                          data |-> df_normalized])]

\* Lines 165-185 (222-235, 272-286): the stages a trajectory method goes through
\* for one forecast, the exception it ends with or "ok", and the solar array
\* handed to ExternalContext.from_client; final is the solver or the simulator
\* and final_outcome what it ends with.
Pipeline(df, jour, heure, final, final_outcome) ==
    LET svc == Val(service)
        valid == IsDfValid(df, svc.horizon * 60, svc.step_minutes)
        row_vector == ToArray(NormalizeDf(df, svc.horizon, svc.step_minutes))
        ext_context == FromClient(Val(client), jour, heure, row_vector.array,
                                  svc.horizon, svc.step_minutes)
    IN  IF valid = "TypeError"
        THEN [outcome |-> "TypeError", calls |-> <<"_is_df_valid">>, solar |-> None]
        ELSE IF valid # "True"
        THEN [outcome |-> "WeatherNotValid", calls |-> <<"_is_df_valid">>, solar |-> None]
        ELSE IF row_vector.outcome # "ok"
        THEN [outcome |-> row_vector.outcome,
              calls |-> <<"_is_df_valid", "resample", "_to_array">>, solar |-> None]
        ELSE IF ext_context.outcome # "ok"
        THEN [outcome |-> ext_context.outcome,
              calls |-> <<"_is_df_valid", "resample", "_to_array",
                          "SystemConfig.from_client", "ExternalContext.from_client">>,
              solar |-> row_vector.array]
        ELSE [outcome |-> final_outcome,
              calls |-> <<"_is_df_valid", "resample", "_to_array",
                          "SystemConfig.from_client", "ExternalContext.from_client", final>>,
              solar |-> row_vector.array]

RunTrajectoryMethod(op, final, final_outcomes) ==
    /\ service # None
    /\ \E df \in Frames, final_outcome \in final_outcomes :
        LET r == Pipeline(df, 0, 21600, final, final_outcome) IN
        /\ last' = Call(op, r.outcome, Some(df), r.solar)
        /\ calls' = r.calls
        /\ outcome' = r.outcome
    /\ UNCHANGED <<mode, X, cost, self_consumption, config_system, context,
                   initial_temperature, cost_src, sc_src, pc, inputs, res, created>>
    /\ UNCHANGED <<client, client_dict, service>>

\* Lines 132-185.
TrajectoryOfClient ==
    RunTrajectoryMethod("trajectory_of_client", "Solver.solve", {"ok", "SolverFailed"})

\* Lines 187-235.
TrajectoryOfClientStandard ==
    RunTrajectoryMethod("trajectory_of_client_standard", "generate_standard_trajectory", {"ok"})

\* Lines 237-286.
TrajectoryOfClientRouter ==
    RunTrajectoryMethod("trajectory_of_client_router", "generate_router_only_trajectory", {"ok"})

ServiceClients ==
    { c \in ContextClients :
        c.planning = <<>> /\ c.prices.mode = "BASE" /\ c.constraints.forbidden_slots = <<>> }

\* Lines 35-52: __init__ runs the horizon setter, then the step_minutes setter.
ServiceInit ==
    /\ EngineIdle
    /\ ConstraintsConstructed
    /\ PricesConstructed(None)
    /\ PlanningConstructed
    /\ client \in { Some(c) : c \in ServiceClients }
    /\ client_dict = None
    /\ \E horizon_hours \in HorizonInputs, step_minutes \in StepInputs :
          /\ HorizonSetterOutcome(horizon_hours) = "ok"
          /\ StepSetterOutcome(step_minutes, horizon_hours) = "ok"
          /\ service = Some([horizon |-> horizon_hours, step_minutes |-> step_minutes])
    /\ last = Call("OptimizerService", "ok", None, None)

ServiceNext ==
    \/ SetHorizon /\ UNCHANGED <<forbidden_slots, prices, setpoints, round_trip>>
    \/ SetStepMinutes /\ UNCHANGED <<forbidden_slots, prices, setpoints, round_trip>>
    \/ TrajectoryOfClient /\ UNCHANGED <<forbidden_slots, prices, setpoints, round_trip>>
    \/ TrajectoryOfClientStandard /\ UNCHANGED <<forbidden_slots, prices, setpoints, round_trip>>
    \/ TrajectoryOfClientRouter /\ UNCHANGED <<forbidden_slots, prices, setpoints, round_trip>>

ServiceSpec == ServiceInit /\ [][ServiceNext]_vars

(***************************************************************************)
(* Properties.                                                             *)
(***************************************************************************)
IsPrefix(a, b) == Len(a) <= Len(b) /\ SubSeq(b, 1, Len(a)) = a

\* The decisions of X lie in [0, 1].
DecisionsAdmissible ==
    \A i \in 1..Val(context).N : Le(Zero, Val(X)[i]) /\ Le(Val(X)[i], One)

\* Every derived entry of X (positions N+1 .. 4N+1) is the NaN sentinel.
DerivedAllNaN ==
    \A i \in (Val(context).N + 1)..Len(Val(X)) : IsNaN(Val(X)[i])

\* C1: in SOLVER_DELIVERED every assignment of x is refused with a permission
\* error and leaves X, both caches and the mode as they were.
C1_DeliveredRefusesAssignment ==
    [][(mode = "SOLVER_DELIVERED" /\ last'.op = "x_setter")
        => (last'.outcome = "PermissionDeniedError"
            /\ UNCHANGED <<X, cost, self_consumption, mode>>)]_vars

\* C1: a delivered trajectory whose x was assigned all the same.
C1_AssignedWhileDelivered ==
    /\ mode = "SOLVER_DELIVERED"
    /\ last.op = "x_setter"
    /\ last.outcome = "ok"
    /\ last.arg # None
    /\ X # None

\* C2: upload_X_vector and upload_cost succeed only in SOLVER; in MANUAL and
\* SOLVER_DELIVERED they raise a permission error and leave X, the cached cost
\* and the mode unchanged; update_X and the accessors still work when delivered.
C2_UploadsOnlyInSolver ==
    [][/\ (last'.op \in {"upload_X_vector", "upload_cost"}
           /\ mode \in {"MANUAL", "SOLVER_DELIVERED"})
          => (last'.outcome = "PermissionDeniedError" /\ UNCHANGED <<X, cost, mode>>)
       /\ (last'.op \in {"upload_X_vector", "upload_cost"} /\ last'.outcome = "ok")
          => (mode = "SOLVER" /\ mode' = "SOLVER")
       /\ (/\ mode = "SOLVER_DELIVERED"
           /\ last'.op = "update_X"
           /\ X # None /\ config_system # None /\ context # None
           /\ initial_temperature # None)
          => (last'.outcome = "ok" /\ mode' = "SOLVER_DELIVERED")
       /\ (mode = "SOLVER_DELIVERED" /\ last'.op = "get_exports")
          => last'.outcome = "ok"]_vars

\* C2: a refused upload_cost on a delivered trajectory that holds X and a cost.
C2_RefusedUploadWhenDelivered ==
    /\ mode = "SOLVER_DELIVERED"
    /\ last.op = "upload_cost"
    /\ last.outcome = "PermissionDeniedError"
    /\ X # None
    /\ cost # None

\* C3: once in SOLVER_DELIVERED, no public operation leaves that state.
C3_DeliveredIsTerminal ==
    [][(mode = "SOLVER_DELIVERED"
        /\ last'.op \in {"make_solver_traj", "make_solver_delivered_traj", "x_setter",
                         "update_X", "upload_X_vector", "upload_cost"})
        => mode' = "SOLVER_DELIVERED"]_vars

\* The calls Solver.solve is to make on its trajectory, in order.
ExpectedCalls(m) ==
    <<"__init__", "make_solver_traj", "upload_X_vector">>
      \o (IF m = "COST" THEN <<"upload_cost">> ELSE <<>>)
      \o <<"make_solver_delivered_traj">>

C5_FailureYieldsNoTrajectory ==
    /\ (res # None /\ ~Val(res).success)
       => /\ ~created
          /\ calls = <<>>
          /\ pc \in {"backend", "raised", "done"}
          /\ pc = "raised" => last.outcome = "RuntimeError"
          /\ pc = "done" => outcome = "SolverFailed"
          /\ outcome \in {"pending", "SolverFailed"}
    /\ outcome = "trajectory"
       => (Val(res).success /\ mode = "SOLVER_DELIVERED" /\ X = Some(Val(res).x))

\* C5: a failed MILP run surfaced as SolverFailed.
C5_MilpFailureSurfaced ==
    /\ pc = "done"
    /\ outcome = "SolverFailed"
    /\ Val(res).backend = "milp"
    /\ ~created

\* C6: X is null or has exactly 4N+1 entries, N that of the current context.
C6_XLength ==
    X = None \/ (context # None /\ Len(Val(X)) = 4 * Val(context).N + 1)

\* C6: a router-generated trajectory over more than one step.
C6_RouterVectorBuilt ==
    /\ last.op = "generate_router_only_trajectory"
    /\ last.outcome = "ok"
    /\ X # None
    /\ Val(context).N > 1

UpdatedWithAdmissibleX ==
    /\ last.op = "update_X"
    /\ last.outcome = "ok"
    /\ DecisionsAdmissible

FlowsSound ==
    LET I == GetImports(Val(X))
        E == GetExports(Val(X))
    IN  \A i \in 1..Val(context).N :
            /\ Ge(I[i], Zero)
            /\ Ge(E[i], Zero)
            /\ Mul(I[i], E[i]) = Zero

\* C7 as claimed: after update_X every temperature T[0..N] is at least the
\* cold-water temperature, imports and exports are non-negative and I*E = 0.
C7_AllTemperaturesAboveCold ==
    UpdatedWithAdmissibleX
    => /\ \A i \in 1..(Val(context).N + 1) :
            Ge(GetTemperatures(Val(X))[i], Val(config_system).T_cold_water)
       /\ FlowsSound

\* C7 as amended: T[0] is the initial temperature as given; every later
\* temperature T[1..N] is at least the cold-water temperature; imports and
\* exports are non-negative and I*E = 0 at every step.
C7_UpdateXEnvelope ==
    UpdatedWithAdmissibleX
    => /\ GetTemperatures(Val(X))[1] = Val(initial_temperature)
       /\ \A i \in 2..(Val(context).N + 1) :
            Ge(GetTemperatures(Val(X))[i], Val(config_system).T_cold_water)
       /\ FlowsSound

\* C7: an update from an initial temperature below the cold-water temperature,
\* with heating decided and some export.
C7_UpdatedFromBelowCold ==
    /\ UpdatedWithAdmissibleX
    /\ Lt(Val(initial_temperature), Val(config_system).T_cold_water)
    /\ \E i \in 1..Val(context).N : Gt(Val(X)[i], Zero)
    /\ \E i \in 1..Val(context).N : Gt(GetExports(Val(X))[i], Zero)
    /\ \E i \in 1..Val(context).N : Gt(GetImports(Val(X))[i], Zero)

\* C8: every operation that changes X leaves both caches empty, so a cached
\* cost or ratio always belongs to the current X.
C8_CachesFollowX ==
    /\ [][(last'.op \in {"x_setter", "update_X", "upload_X_vector"} /\ last'.outcome = "ok")
          => (cost' = None /\ self_consumption' = None)]_vars
    /\ [](cost # None => cost_src = Some(X))
    /\ [](self_consumption # None => sc_src = Some(X))

\* C8: update_X ran on a trajectory whose two caches were filled.
C8_UpdateClearedFilledCaches ==
    /\ last.op = "update_X"
    /\ last.outcome = "ok"
    /\ last.pre = <<TRUE, TRUE>>
    /\ cost = None
    /\ self_consumption = None

\* C9: while the derived segments of X hold the NaN sentinel, compute_cost and
\* compute_self_consumption raise update-required and cache nothing.
C9_NaNRaisesUpdateRequired ==
    (/\ last.op \in {"compute_cost", "compute_self_consumption"}
     /\ X # None
     /\ context # None
     /\ DerivedAllNaN)
    => /\ last.outcome = "UpdateRequired"
       /\ last.op = "compute_cost" => cost = None
       /\ last.op = "compute_self_consumption" => self_consumption = None

\* C9: compute_cost returned (and cached) a value on a trajectory not yet updated.
C9_CostComputedOnNaN ==
    /\ last.op = "compute_cost"
    /\ last.outcome = "ok"
    /\ last.pre[1] = FALSE
    /\ X # None
    /\ DerivedAllNaN
    /\ cost # None

\* What an accepted assignment of the vector v stores: v, then 3N+1 NaN.
StoredFor(v, N) == [i \in 1..(4 * N + 1) |-> IF i <= N THEN v[i] ELSE NaN]

\* The assignments the claim says are refused.
ClaimedRefused(a) ==
    \/ context = None
    \/ config_system = None
    \/ /\ a # None
       /\ \/ Len(Val(a)) # Val(context).N
          \/ \E i \in 1..Len(Val(a)) : ~(Le(Zero, Val(a)[i]) /\ Le(Val(a)[i], One))
          \/ /\ ~Val(config_system).is_gradation
             /\ \E i \in 1..Len(Val(a)) : Val(a)[i] \notin {Zero, One}

\* The assignments the setter refuses: None is never refused, and a NaN entry
\* is neither below 0 nor above 1.
Refused(a) ==
    /\ a # None
    /\ \/ context = None
       \/ config_system = None
       \/ Len(Val(a)) # Val(context).N
       \/ \E i \in 1..Len(Val(a)) : Lt(Val(a)[i], Zero) \/ Gt(Val(a)[i], One)
       \/ /\ ~Val(config_system).is_gradation
          /\ \E i \in 1..Len(Val(a)) : Val(a)[i] \notin {Zero, One}

TrajectoryOps ==
    {"x_setter", "update_X", "upload_X_vector", "upload_cost", "compute_cost",
     "compute_self_consumption", "generate_standard_trajectory",
     "generate_router_only_trajectory"}

\* C11: no TrajectorySystem operation changes a field of the context or of the
\* system configuration it references; the context vectors and N are the same
\* before and after each operation.
C11_BorrowedObjectsUntouched ==
    [][last'.op \in TrajectoryOps
       => (context' = context /\ config_system' = config_system)]_vars

\* C11: update_X ran over a context that holds a non-zero draw.
C11_UpdatedOverDraws ==
    /\ last.op = "update_X"
    /\ last.outcome = "ok"
    /\ Val(context).N > 1
    /\ \E i \in 1..Val(context).N : Gt(Val(Val(context).water_draws)[i], Zero)

\* Two slots share no instant.
Disjoint(a, b) == a.end <= b.start \/ b.end <= a.start

RECURSIVE TotalSeconds(_)
TotalSeconds(slot_list) ==
    IF slot_list = <<>> THEN 0
    ELSE (Head(slot_list).end - Head(slot_list).start) + TotalSeconds(Tail(slot_list))

\* C12: after any sequence of forbidden_slots assignments and add_forbidden_slot
\* calls the stored slots are pairwise non-overlapping and total less than 24 h,
\* and a rejected assignment or add leaves the stored list as it was.
C12_ForbiddenSlotsCoherent ==
    /\ [](/\ \A i, j \in 1..Len(forbidden_slots) :
               i # j => Disjoint(forbidden_slots[i], forbidden_slots[j])
          /\ TotalSeconds(forbidden_slots) < 86400
          /\ TotalMinutes(forbidden_slots) < 1440
          /\ \A i \in 1..Len(forbidden_slots) : forbidden_slots[i].type = "TimeSlot")
    /\ [][(last'.op \in {"forbidden_slots_setter", "add_forbidden_slot"}
           /\ last'.outcome # "ok")
          => forbidden_slots' = forbidden_slots]_vars

\* C12: an overlapping add was refused on a list that holds two slots.
C12_OverlappingAddRefused ==
    /\ last.op = "add_forbidden_slot"
    /\ last.outcome = "ValueError"
    /\ Val(last.arg)[1] < Val(last.arg)[2]
    /\ Len(forbidden_slots) >= 2

\* The slots of a list are pairwise disjoint and strictly ordered.
DisjointAndOrdered(slot_list) ==
    \A i, j \in 1..Len(slot_list) :
        i < j => (slot_list[i].start < slot_list[j].start
                  /\ slot_list[i].end <= slot_list[j].start)

Entries(l) == { l[i] : i \in 1..Len(l) }

\* Among the items of l with key k, the first of the hottest ones.
FirstHottest(l, k) ==
    LET at == { i \in 1..Len(l) : Cle(l[i]) = k }
        i == CHOOSE a \in at :
                \A b \in at : \/ l[a].temperature > l[b].temperature
                              \/ (l[a].temperature = l[b].temperature /\ a <= b)
    IN  l[i]

\* C14: the stored list is strictly ascending by (day, time), hence without two
\* entries for one key, and every operation keeps, for each key, the first of
\* the hottest setpoints supplied for it: an assignment stores the first hottest
\* item of each key of its list, an add replaces the stored entry of its key only
\* by a strictly hotter one, a removal drops its key only, clear drops all.
C14_PlanningSortedHottest ==
    /\ [](\A i, j \in 1..Len(setpoints) : i < j => SetpointLt(setpoints[i], setpoints[j]))
    /\ [][/\ (last'.op = "setpoints_setter" /\ last'.outcome = "ok")
             => Entries(setpoints') =
                  { FirstHottest(Val(last'.arg).items, Cle(c)) :
                        c \in Entries(Val(last'.arg).items) }
          /\ (last'.op = "add_setpoint" /\ last'.outcome = "ok")
             => Entries(setpoints') =
                  { FirstHottest(Append(setpoints, Val(last'.arg)), Cle(c)) :
                        c \in Entries(setpoints) \cup {Val(last'.arg)} }
          /\ last'.op = "remove_setpoint"
             => Entries(setpoints') =
                  { c \in Entries(setpoints) : Cle(c) # Val(last'.arg) }
          /\ last'.op = "clear" => setpoints' = <<>>
          /\ (last'.op \in {"setpoints_setter", "add_setpoint"} /\ last'.outcome # "ok")
             => setpoints' = setpoints]_vars

\* C14: an add found an equally hot setpoint stored for its key, and the stored
\* one stayed.
C14_TieKeptFirst ==
    /\ last.op = "add_setpoint"
    /\ last.outcome = "ok"
    /\ Val(last.arg) \notin Entries(setpoints)
    /\ \E c \in Entries(setpoints) :
          Cle(c) = Cle(Val(last.arg)) /\ c.temperature = Val(last.arg).temperature
    /\ Len(setpoints) >= 2

\* C15 as claimed: add_setpoint(s) followed by remove_setpoint(s.day, s.time)
\* leaves the list as long as it was before the add.
C15_AddRemoveRestoresLength ==
    (round_trip # None /\ Val(round_trip).phase = "removed")
    => Len(setpoints) = Val(round_trip).len

\* C15 as amended: add_setpoint(s) followed by remove_setpoint(s.day, s.time)
\* restores the length when no stored setpoint had the key of s before the add;
\* when one had it, the add keeps the length and the removal leaves the list one
\* entry shorter than before the add.  In both cases no entry of that key is left.
C15_AddRemoveLength ==
    (round_trip # None /\ Val(round_trip).phase = "removed")
    => /\ Len(setpoints) = IF Val(round_trip).had_key THEN Val(round_trip).len - 1
                           ELSE Val(round_trip).len
       /\ \A c \in Entries(setpoints) : Cle(c) # Val(round_trip).cle

\* C15: a setpoint was added over a stored one of its key, then removed.
C15_RemovedAfterAddOverKey ==
    /\ round_trip # None
    /\ Val(round_trip).phase = "removed"
    /\ Val(round_trip).had_key
    /\ last.op = "remove_setpoint"
    /\ Len(setpoints) >= 1

\* The projected key of a setpoint for an anchor.
ProjectedKey(c, t_anchor) ==
    LET t_sp == c.day * 1440 + (c.time \div 60) IN
    IF t_sp >= t_anchor THEN t_sp ELSE t_sp + 10080

\* C16: get_future_setpoints returns each stored setpoint at most once, exactly
\* those whose projected key lies in [t_anchor, t_end], ascending by projected
\* key, so that week-wrapped entries come after all direct ones.
C16_FutureSetpoints ==
    last.op = "get_future_setpoints"
    => LET a == Val(last.arg)
           out == Val(last.ret)
           t_anchor == a[1] * 1440 + (a[2] \div 60)
           t_end == t_anchor + a[3] * 60
       IN  /\ \A i, j \in 1..Len(out) : i # j => out[i] # out[j]
           /\ Entries(out) =
                { c \in Entries(setpoints) :
                    ProjectedKey(c, t_anchor) >= t_anchor /\ ProjectedKey(c, t_anchor) <= t_end }
           /\ \A i, j \in 1..Len(out) :
                i < j => ProjectedKey(out[i], t_anchor) <= ProjectedKey(out[j], t_anchor)
           /\ \A i, j \in 1..Len(out) :
                (ProjectedKey(out[i], t_anchor) >= 10080 /\ ProjectedKey(out[j], t_anchor) < 10080)
                => j < i

\* C16: a call that returned a direct entry followed by a week-wrapped one and
\* left a stored setpoint out.
C16_WrappedAfterDirect ==
    /\ last.op = "get_future_setpoints"
    /\ Len(Val(last.ret)) >= 2
    /\ Len(Val(last.ret)) < Len(setpoints)
    /\ LET t_anchor == Val(last.arg)[1] * 1440 + (Val(last.arg)[2] \div 60) IN
       /\ ProjectedKey(Val(last.ret)[1], t_anchor) < 10080
       /\ ProjectedKey(Val(last.ret)[Len(Val(last.ret))], t_anchor) >= 10080

\* C17: for every valid client c, Client.from_dict(c.to_dict()) succeeds and
\* the dict of the client it returns equals c.to_dict().
C17_RoundTripFixedPoint ==
    [][last'.op = "from_dict"
        => (last'.outcome = "ok" /\ ToDict(Val(client')) = Val(client_dict))]_vars

\* C17: the dict a client produced was handed back to from_dict.
C17_DictReloaded ==
    /\ last.op = "from_dict"
    /\ client_dict # None

\* The call just observed is a compute_self_consumption that returned a ratio
\* for a fully materialised X over a context whose solar production sums to
\* more than zero.
RatioReturned ==
    /\ last.op = "compute_self_consumption"
    /\ last.outcome = "ok"
    /\ X # None /\ context # None
    /\ GetterDimensionOk(Val(X))
    /\ ~SeqHasNaN(Val(X))
    /\ Gt(SumSeq(Val(Val(context).solar_production)), Zero)

NonNegative(v) == \A i \in 1..Len(v) : Le(Zero, v[i])

\* The exports held in X are the ones update_X computes from its decisions.
ExportsFromUpdate ==
    /\ config_system # None
    /\ Len(Val(X)) = 4 * Val(context).N + 1
    /\ GetExports(Val(X)) =
          ExportsOf(PNet(SubSeq(Val(X), 1, Val(context).N), Val(config_system),
                         Val(context)))

InUnitInterval(r) == Le(Zero, r) /\ Le(r, One)

\* C18 (as stated): whenever the solar production sums to more than zero and
\* the derived vectors are materialised, compute_self_consumption returns a
\* ratio in [0, 1].
C18_RatioInUnitInterval ==
    RatioReturned => InUnitInterval(Val(last.ret))

\* C18 (amended): with a solar production and a house consumption that are
\* nowhere negative, and exports computed by update_X, the ratio returned is
\* in [0, 1].
C18_RatioInUnitIntervalNonNegative ==
    (/\ RatioReturned
     /\ NonNegative(Val(Val(context).solar_production))
     /\ NonNegative(Val(Val(context).house_consumption))
     /\ ExportsFromUpdate)
        => InUnitInterval(Val(last.ret))

\* C18: under those conditions a ratio strictly between 0 and 1 was returned.
C18_PartlyExported ==
    /\ RatioReturned
    /\ NonNegative(Val(Val(context).solar_production))
    /\ NonNegative(Val(Val(context).house_consumption))
    /\ ExportsFromUpdate
    /\ Lt(Zero, Val(last.ret)) /\ Lt(Val(last.ret), One)

C20_StandardMaterialised ==
    (last.op = "generate_standard_trajectory" /\ last.outcome = "ok")
        => /\ calls = <<>>
           /\ ~SeqHasNaN(Val(X))
           /\ GetTemperatures(Val(X))[1] = Val(initial_temperature)
           /\ Val(X) = RecomputedX(SubSeq(Val(X), 1, Val(context).N),
                                   Val(initial_temperature), Val(config_system),
                                   Val(context))

\* C20: a standard trajectory was generated.
C20_StandardGenerated ==
    /\ last.op = "generate_standard_trajectory"
    /\ last.outcome = "ok"
    /\ X # None

\* The minutes from the start of the simulation forward to an event, over the
\* week's end if need be.
ForwardGap(evt, a) ==
    ((evt.day * 1440 + (evt.time \div 60)) - (a.jour * 1440 + (a.heure \div 60))) % 10080

RECURSIVE VolumeOf(_)
VolumeOf(events) ==
    IF events = <<>> THEN 0 ELSE Head(events).drawn_volume + VolumeOf(Tail(events))

MaxOf(S) == CHOOSE v \in S : \A w \in S : w <= v

\* The events from_client is given for the call recorded in last.
EventsOfCall ==
    LET a == Val(last.arg) IN
    FutureSetpointsOf(Val(client).planning, a.jour, a.heure, a.horizon)

EventsInBucket(idx) ==
    LET a == Val(last.arg) IN
    SelectSeq(EventsOfCall, LAMBDA e : ForwardGap(e, a) \div a.time_step_minutes = idx)

\* C21: in the context from_client returns, water_draws[idx] is the sum of the
\* drawn volumes of the future setpoints whose bucket floor(gap / step) is idx
\* (0 where there is none) and future_setpoints[idx] is the largest of the
\* minimum temperature and their temperatures, for every idx in 0..N-1.
C21_BucketsFilled ==
    (last.op = "from_client" /\ last.outcome = "ok")
    => LET ctx == Val(last.ret) IN
       /\ Len(Val(ctx.water_draws)) = ctx.N
       /\ Len(Val(ctx.future_setpoints)) = ctx.N
       /\ \A idx \in 0..(ctx.N - 1) :
            LET evts == EventsInBucket(idx) IN
            /\ Val(ctx.water_draws)[idx + 1] = Num(VolumeOf(evts))
            /\ Val(ctx.future_setpoints)[idx + 1] =
                 Num(MaxOf({Val(client).constraints.minimum_temperature}
                           \cup { evts[i].temperature : i \in 1..Len(evts) }))

\* C21: a context was returned in which one bucket holds two setpoints, another
\* holds none, and one future setpoint lies beyond the last bucket.
C21_TwoInOneBucket ==
    /\ last.op = "from_client" /\ last.outcome = "ok"
    /\ \E idx \in 0..(Val(last.ret).N - 1) : Len(EventsInBucket(idx)) = 2
    /\ \E idx \in 0..(Val(last.ret).N - 1) : Len(EventsInBucket(idx)) = 0
    /\ \E i \in 1..Len(EventsOfCall) :
          ForwardGap(EventsOfCall[i], Val(last.arg)) \div Val(last.arg).time_step_minutes
            >= Val(last.ret).N

\* The call just observed is a router simulation that returned.
RouterReturned ==
    /\ last.op = "generate_router_only_trajectory"
    /\ last.outcome = "ok"

RouterSetpoint ==
    IF Val(last.arg).setpoint = None THEN Val(config_system).T_max_safe
    ELSE Val(Val(last.arg).setpoint)

\* max(0, solar[i] - house[i]).
Surplus(i) ==
    LET s == Sub(Val(Val(context).solar_production)[i], Val(Val(context).house_consumption)[i])
    IN  IF Le(s, Zero) THEN Zero ELSE s

Clamp01(v) == IF Le(v, Zero) THEN Zero ELSE IF Le(One, v) THEN One ELSE v

\* C22: after generate_router_only_trajectory, x[i] = 0 where T[i] >= setpoint,
\* otherwise x[i] is the larger of clamp(max(0, solar - house) / power, 0, 1)
\* and the backup, which is 1 exactly in COMFORT mode with off_peak_hours[i] = 1;
\* T starts at the initial temperature and follows update_X's clamped recurrence.
C22_RouterDecisions ==
    RouterReturned
    => LET N == Val(context).N
           x == SubSeq(Val(X), 1, N)
           T == GetTemperatures(Val(X))
           cfg == Val(config_system)
       IN  /\ Len(Val(X)) = 4 * N + 1
           /\ \A i \in 1..N :
                LET x_solar == Clamp01(Div(Surplus(i), cfg.power))
                    x_backup == IF Val(last.arg).mode = "COMFORT"
                                   /\ Val(Val(context).off_peak_hours)[i] = One
                                THEN One ELSE Zero
                IN  x[i] = IF Le(RouterSetpoint, T[i]) THEN Zero
                           ELSE IF Le(x_solar, x_backup) THEN x_backup ELSE x_solar
           /\ T = ThermalLoop(<<Val(initial_temperature)>>, x, RhoVec(cfg, Val(context)),
                              cfg, Val(context))

\* C22: a simulation in which the thermostat cut one step, the backup heated
\* another and a third step (or the same run's other step) was left unheated.
C22_ThermostatCutAndBackup ==
    /\ RouterReturned
    /\ Val(last.arg).mode = "COMFORT"
    /\ \E i \in 1..Val(context).N : Le(RouterSetpoint, GetTemperatures(Val(X))[i])
    /\ \E i \in 1..Val(context).N :
          /\ Lt(GetTemperatures(Val(X))[i], RouterSetpoint)
          /\ Val(X)[i] = One
          /\ Lt(Div(Surplus(i), Val(config_system).power), One)

\* C29: whenever the config has gradation = false and X is not null, every
\* decision is exactly 0 or 1, however the trajectory was produced.
C29_BinaryWithoutGradation ==
    (config_system # None /\ context # None /\ X # None
     /\ ~Val(config_system).is_gradation)
        => \A i \in 1..Val(context).N : Val(X)[i] \in {Zero, One}

\* C29: the router simulated a trajectory for a config without gradation.
C29_RouterWithoutGradation ==
    /\ RouterReturned
    /\ ~Val(config_system).is_gradation
    /\ \E i \in 1..Val(context).N : Gt(Surplus(i), Zero)

\* C30: in SELF_CONSUMPTION_ONLY mode the router's heater never draws from the
\* grid: power * x[i] <= max(0, solar[i] - house[i]) and the import of every
\* step is max(0, house[i] - solar[i]).
C30_NoGridDraw ==
    (RouterReturned /\ Val(last.arg).mode = "SELF_CONSUMPTION_ONLY")
    => \A i \in 1..Val(context).N :
         LET house_minus_solar ==
                Sub(Val(Val(context).house_consumption)[i],
                    Val(Val(context).solar_production)[i])
         IN  /\ Le(Mul(Val(config_system).power, Val(X)[i]), Surplus(i))
             /\ GetImports(Val(X))[i] =
                  IF Le(house_minus_solar, Zero) THEN Zero ELSE house_minus_solar

\* C30: a SELF_CONSUMPTION_ONLY simulation that heated on a surplus smaller
\* than the heater's power and left a step without surplus unheated.
C30_HeatedOnSurplus ==
    /\ RouterReturned /\ Val(last.arg).mode = "SELF_CONSUMPTION_ONLY"
    /\ \E i \in 1..Val(context).N : Lt(Zero, Val(X)[i]) /\ Lt(Val(X)[i], One)
    /\ \E i \in 1..Val(context).N : Surplus(i) = Zero /\ Val(X)[i] = Zero

\* Decision vectors a backend could propose for N steps.
CandidateDecisions(N) == [1..N -> {Zero, Rat(1, 2), One}]

\* A value within a (lower, upper) pair, None standing for no upper limit.
WithinBounds(v, b) == Le(b[1], v) /\ (b[2] = None \/ Le(v, Val(b[2])))

\* C23: for every step with availability_on[i] = 0 the bounds built by
\* OptimizationInputs are [0, 0], so every decision vector within the bounds has
\* x[i] = 0; for every step with availability_on[i] = 1 the bounds are [0, 1].
C23_UnavailableStepsForcedOff ==
    (last.op = "get_bounds" /\ last.outcome = "ok"
     /\ Val(last.arg).context.availability_on # None)
    => LET ctx == Val(last.arg).context
           bounds == Val(last.ret)
       IN  \A i \in 1..ctx.N :
             /\ Val(ctx.availability_on)[i] = Zero
                  => /\ bounds[i] = <<Zero, Some(Zero)>>
                     /\ \A x \in CandidateDecisions(ctx.N) :
                          (\A j \in 1..ctx.N : WithinBounds(x[j], bounds[j])) => x[i] = Zero
             /\ Val(ctx.availability_on)[i] = One => bounds[i] = <<Zero, Some(One)>>

\* C23: bounds were built for a context with an unavailable and an available step.
C23_MixedAvailability ==
    /\ last.op = "get_bounds" /\ last.outcome = "ok"
    /\ Val(last.arg).context.availability_on # None
    /\ \E i, j \in 1..Val(last.arg).context.N :
          /\ Val(Val(last.arg).context.availability_on)[i] = Zero
          /\ Val(Val(last.arg).context.availability_on)[j] = One
          /\ Val(last.ret)[i][2] = Some(Zero)

TrajectoryMethods ==
    {"trajectory_of_client", "trajectory_of_client_standard", "trajectory_of_client_router"}

\* The number of decision steps of the service, horizon * 60 / step.
StepsOfService == (Val(service).horizon * 60) \div Val(service).step_minutes

\* C24: for every forecast that passes validation, the solar vector handed to
\* ExternalContext.from_client has exactly N = horizon * 60 / step entries and
\* the shape the length-N check accepts, so the context is assembled.
C24_ExtractedVectorHasNEntries ==
    (last.op \in TrajectoryMethods /\ Len(calls) > 1 /\ last.ret # None)
    => /\ Len(Val(last.ret).data) = StepsOfService
       /\ Val(last.ret).shape = <<StepsOfService>>
       /\ outcome \notin {"DimensionNotRespected", "TypeError"}

\* C24: a validated forecast of 5 points for 4 steps reached from_client.
C24_ValidatedForecastHandedOver ==
    /\ last.op = "trajectory_of_client"
    /\ Val(service) = [horizon |-> 1, step_minutes |-> 15]
    /\ Len(Val(last.arg).points) = 5
    /\ calls[Len(calls)] = "ExternalContext.from_client"
    /\ last.ret # None

\* The forecast lacks rows, does not span [start, start + horizon] or has two
\* consecutive dates more than 4 steps apart.
ForecastRefused(df) ==
    \/ df.points = <<>>
    \/ \A i \in 1..Len(df.points) : df.points[i].t > 0
    \/ \A i \in 1..Len(df.points) : df.points[i].t < Val(service).horizon * 60
    \/ \E i \in 1..(Len(df.points) - 1) :
          df.points[i + 1].t - df.points[i].t > 4 * Val(service).step_minutes

\* C26: in the three trajectory methods the validation of the forecast comes
\* before any resampling, and when it fails (empty frame, span not covered, gap
\* above 4 steps) WeatherNotValid is raised and neither the resampling, the
\* context assembly, the solver nor a simulator is invoked.
C26_ValidationFirst ==
    last.op \in TrajectoryMethods
    => /\ calls[1] = "_is_df_valid"
       /\ (Val(last.arg).kind = "frame" /\ ForecastRefused(Val(last.arg)))
            => /\ outcome = "WeatherNotValid"
               /\ last.outcome = "WeatherNotValid"
               /\ calls = <<"_is_df_valid">>

\* C26: a forecast covering the horizon with a gap above 4 steps was refused.
C26_GapRefused ==
    /\ last.op \in TrajectoryMethods
    /\ Val(last.arg).kind = "frame"
    /\ Val(last.arg).points # <<>>
    /\ Val(last.arg).points[1].t <= 0
    /\ Val(last.arg).points[Len(Val(last.arg).points)].t >= Val(service).horizon * 60
    /\ ForecastRefused(Val(last.arg))
    /\ outcome = "WeatherNotValid"

\* C27: in every state of an OptimizerService, 1 <= horizon <= 48,
\* step_minutes >= 5 and step_minutes / 60 <= horizon / 2.
C27_ServiceLimits ==
    service # None
    => /\ MIN_HORIZON_HOURS <= Val(service).horizon
       /\ Val(service).horizon <= MAX_HORIZON_HOURS
       /\ Val(service).step_minutes >= min_step_minutes
       /\ 2 * Val(service).step_minutes <= 60 * Val(service).horizon

\* C27: the horizon setter accepted a value and changed the horizon.
C27_HorizonShortened ==
    /\ last.op = "horizon" /\ last.outcome = "ok"
    /\ Val(last.ret).horizon > Val(service).horizon
    /\ Val(service).horizon = Val(last.arg)

\* C27 (second part): a rejected setter call leaves horizon and step unchanged.
C27_RejectedSetterKeepsValues ==
    (last.op \in {"horizon", "step_minutes"} /\ last.outcome # "ok") => service = last.ret

\* The context vectors an operation reads, given its argument.
VectorsNeeded(op, arg) ==
    CASE op = "update_X" -> {"house_consumption", "solar_production", "water_draws"}
      [] op = "compute_cost" -> {"prices_purchases", "prices_sell"}
      [] op = "compute_self_consumption" -> {"solar_production"}
      [] op = "generate_standard_trajectory" ->
            {"water_draws"} \cup (IF Val(arg).setpoint = None THEN {"future_setpoints"} ELSE {})
      [] op = "generate_router_only_trajectory" ->
            {"house_consumption", "solar_production", "water_draws"}
      [] op = "A_eq" -> {"water_draws"}
      [] op = "B_eq" -> {"house_consumption", "solar_production", "water_draws"}
      [] op = "get_bounds" -> {"future_setpoints"}
      [] op = "C_cost" -> {"prices_purchases", "prices_sell"}
      [] OTHER -> {}

\* The last operation needed a vector that the context does not have.
VectorMissing ==
    /\ context # None
    /\ \E f \in VectorsNeeded(last.op, last.arg) : Val(context)[f] = None

\* C25: every operation that needs a context vector that is None (update_X,
\* compute_cost, compute_self_consumption, the two generators, A_eq, B_eq,
\* get_bounds, C_cost) raises NotEnoughVariables.
C25_MissingVectorRaisesNotEnough ==
    VectorMissing => last.outcome = "NotEnoughVariables"

\* C25: update_X ran on decisions whose context has no house consumption.
C25_UpdateWithoutHouseConsumption ==
    /\ last.op = "update_X"
    /\ X # None
    /\ Val(context).house_consumption = None

\* The unclamped temperature of step t is below the cold-water temperature.
ClampActive(t) ==
    Lt(TNext(GetTemperatures(Val(X))[t], RhoVec(Val(config_system), Val(context))[t],
             Val(X)[t], Val(config_system), Val(context)),
       Val(config_system).T_cold_water)

\* update_X returned on decisions that all lie in [0, 1].
UpdateReturned == last.op = "update_X" /\ last.outcome = "ok" /\ DecisionsAdmissible

\* C28: the vector update_X produces from an admissible x satisfies the equality rows of the LP of
\* the same config and context: the initial-condition row and every
\* electrical-balance row always, and every thermodynamics row at the steps
\* where the clamp to the cold-water temperature is not active.
C28_UpdateSatisfiesEqualityRows ==
    UpdateReturned
    => LET N == Val(context).N
           A == A_eq(InputsOfTrajectory)
           B == B_eq(InputsOfTrajectory)
       IN  /\ Len(A) = 2 * N + 1 /\ Len(B) = 2 * N + 1
           /\ Dot(A[1], Val(X)) = B[1]
           /\ \A t \in 1..N : Dot(A[N + 1 + t], Val(X)) = B[N + 1 + t]
           /\ \A t \in 1..N : ~ClampActive(t) => Dot(A[1 + t], Val(X)) = B[1 + t]

\* C28: an update with a water draw, one step held at the cold-water
\* temperature and one step that was not.
C28_ClampedAndFreeSteps ==
    /\ UpdateReturned
    /\ \E t \in 1..Val(context).N : ClampActive(t)
    /\ \E t \in 1..Val(context).N :
          /\ ~ClampActive(t)
          /\ Val(Val(context).water_draws)[t] # Zero
          /\ Val(X)[t] = Rat(1, 2)

====
